---------------------------- MODULE Spec2Model ----------------------------
(***************************************************************************)
(* A model of the sienna-locomotive tracer (src/tracer/tracer.cpp): the    *)
(* taint engine (register canonicalisation, shadow state, propagation      *)
(* rules), the trace rings, the input-interception post-hooks, the         *)
(* exception triage ladder with its crash artifacts, and the exit record.  *)
(*                                                                         *)
(* The C++ functions are translated to operators over a record G of the    *)
(* tracer's file-scope globals; each callback the DBI host invokes is one  *)
(* action.  Guest threads run callbacks concurrently and the source takes  *)
(* no lock around the shadow state, so a second family of actions steps    *)
(* two threads through the same callbacks one shared access at a time.     *)
(***************************************************************************)
EXTENDS Integers, Sequences, FiniteSets, TLC

(***************************************************************************)
(* Register identifiers.  reg_id_t values are those of DynamoRIO's         *)
(* DR_REG_ enumeration for x86-64 (dr_ir_opnd.h), in its order: NULL, the  *)
(* sixteen 64-bit registers, their 32-bit, 16-bit and 8-bit forms.         *)
(***************************************************************************)
DR_REG_NULL == 0
DR_REG_RAX == 1
DR_REG_RCX == 2
DR_REG_RDX == 3
DR_REG_RBX == 4
DR_REG_RSP == 5
DR_REG_RBP == 6
DR_REG_RSI == 7
DR_REG_RDI == 8
DR_REG_R8 == 9
DR_REG_R9 == 10
DR_REG_R10 == 11
DR_REG_R11 == 12
DR_REG_R12 == 13
DR_REG_R13 == 14
DR_REG_R14 == 15
DR_REG_R15 == 16
DR_REG_EAX == 17
DR_REG_ECX == 18
DR_REG_EDX == 19
DR_REG_EBX == 20
DR_REG_ESP == 21
DR_REG_EBP == 22
DR_REG_ESI == 23
DR_REG_EDI == 24
DR_REG_R8D == 25
DR_REG_R9D == 26
DR_REG_R10D == 27
DR_REG_R11D == 28
DR_REG_R12D == 29
DR_REG_R13D == 30
DR_REG_R14D == 31
DR_REG_R15D == 32
DR_REG_AX == 33
DR_REG_CX == 34
DR_REG_DX == 35
DR_REG_BX == 36
DR_REG_SP == 37
DR_REG_BP == 38
DR_REG_SI == 39
DR_REG_DI == 40
DR_REG_R8W == 41
DR_REG_R9W == 42
DR_REG_R10W == 43
DR_REG_R11W == 44
DR_REG_R12W == 45
DR_REG_R13W == 46
DR_REG_R14W == 47
DR_REG_R15W == 48
DR_REG_AL == 49
DR_REG_CL == 50
DR_REG_DL == 51
DR_REG_BL == 52
DR_REG_AH == 53
DR_REG_CH == 54
DR_REG_DH == 55
DR_REG_BH == 56
DR_REG_R8L == 57
DR_REG_R9L == 58
DR_REG_R10L == 59
DR_REG_R11L == 60
DR_REG_R12L == 61
DR_REG_R13L == 62
DR_REG_R14L == 63
DR_REG_R15L == 64
\* The four low-byte forms that exist only in 64-bit mode follow R15L in the
\* enumeration.  tracer.cpp never names them.
DR_REG_SPL == DR_REG_R15L + 1
DR_REG_BPL == DR_REG_R15L + 2
DR_REG_SIL == DR_REG_R15L + 3
DR_REG_DIL == DR_REG_R15L + 4

\* The 64-bit general-purpose registers.
GPR64 ==
  { DR_REG_RAX, DR_REG_RCX, DR_REG_RDX, DR_REG_RBX, DR_REG_RSP, DR_REG_RBP,
    DR_REG_RSI, DR_REG_RDI, DR_REG_R8, DR_REG_R9, DR_REG_R10, DR_REG_R11,
    DR_REG_R12, DR_REG_R13, DR_REG_R14, DR_REG_R15 }

\* Every general-purpose register form of the ISA, sub-registers included.
AllGPR == DR_REG_RAX .. DR_REG_DIL

\* reg_to_full_width64: the switch, case by case; default returns reg.
reg_to_full_width64(reg) ==
  CASE reg \in {DR_REG_EAX, DR_REG_AX, DR_REG_AH, DR_REG_AL} -> DR_REG_RAX
    [] reg \in {DR_REG_EBX, DR_REG_BX, DR_REG_BH, DR_REG_BL} -> DR_REG_RBX
    [] reg \in {DR_REG_ECX, DR_REG_CX, DR_REG_CH, DR_REG_CL} -> DR_REG_RCX
    [] reg \in {DR_REG_EDX, DR_REG_DX, DR_REG_DH, DR_REG_DL} -> DR_REG_RDX
    [] reg \in {DR_REG_R8D, DR_REG_R8W, DR_REG_R8L} -> DR_REG_R8
    [] reg \in {DR_REG_R9D, DR_REG_R9W, DR_REG_R9L} -> DR_REG_R9
    [] reg \in {DR_REG_R10D, DR_REG_R10W, DR_REG_R10L} -> DR_REG_R10
    [] reg \in {DR_REG_R11D, DR_REG_R11W, DR_REG_R11L} -> DR_REG_R11
    [] reg \in {DR_REG_R12D, DR_REG_R12W, DR_REG_R12L} -> DR_REG_R12
    [] reg \in {DR_REG_R13D, DR_REG_R13W, DR_REG_R13L} -> DR_REG_R13
    [] reg \in {DR_REG_R14D, DR_REG_R14W, DR_REG_R14L} -> DR_REG_R14
    [] reg \in {DR_REG_R15D, DR_REG_R15W, DR_REG_R15L} -> DR_REG_R15
    [] reg \in {DR_REG_ESP, DR_REG_SP} -> DR_REG_RSP
    [] reg \in {DR_REG_EBP, DR_REG_BP} -> DR_REG_RBP
    [] reg \in {DR_REG_ESI, DR_REG_SI} -> DR_REG_RSI
    [] reg \in {DR_REG_EDI, DR_REG_DI} -> DR_REG_RDI
    [] OTHER -> reg

(***************************************************************************)
(* Bounds of the model.                                                    *)
(***************************************************************************)
\* Bytes of a stack slot in the model (8 on the real machine).
StackSlotSize == 2
\* Largest byte count an intercepted read asks for.
MaxRead == 2
\* Targeted interceptions in replay mode a run performs at most.
MaxReplays == 2
\* Sane post-hook invocations a run performs at most.
MaxCalls == 2

\* #define LAST_COUNT 5
LAST_COUNT == 5

(***************************************************************************)
(* Operands (opnd_t).  A memory operand carries the effective address that *)
(* opnd_compute_address resolves from the machine context at the call.     *)
(***************************************************************************)
OpReg(r) ==
  [k |-> "reg", reg |-> r, addr |-> 0, size |-> 0,
   base |-> DR_REG_NULL, index |-> DR_REG_NULL, disp |-> 0]
\* base+index+displacement memory reference
OpMem(a, n, b, x, d) ==
  [k |-> "base_disp", reg |-> DR_REG_NULL, addr |-> a, size |-> n,
   base |-> b, index |-> x, disp |-> d]
\* absolute / pc-relative memory reference
OpAbs(a, n) ==
  [k |-> "abs_addr", reg |-> DR_REG_NULL, addr |-> a, size |-> n,
   base |-> DR_REG_NULL, index |-> DR_REG_NULL, disp |-> 0]
OpImm ==
  [k |-> "immed", reg |-> DR_REG_NULL, addr |-> 0, size |-> 0,
   base |-> DR_REG_NULL, index |-> DR_REG_NULL, disp |-> 0]
OpPc ==
  [k |-> "pc", reg |-> DR_REG_NULL, addr |-> 0, size |-> 0,
   base |-> DR_REG_NULL, index |-> DR_REG_NULL, disp |-> 0]

opnd_is_reg(opnd) == opnd.k = "reg"
opnd_is_memory_reference(opnd) == opnd.k \in {"base_disp", "abs_addr"}
opnd_is_base_disp(opnd) == opnd.k = "base_disp"
opnd_get_reg(opnd) == opnd.reg
opnd_compute_address(opnd) == opnd.addr
opnd_size_in_bytes(opnd) == opnd.size

\* The conversion of opnd_get_disp's int to reg_id_t (an unsigned short).
int_to_reg_id(d) == d % 65536

(***************************************************************************)
(* Instructions (instr_t): opcode, sources, destinations, in DynamoRIO's   *)
(* operand order, and the classification predicates the tracer calls.      *)
(***************************************************************************)
Instr(op, srcs, dsts) == [op |-> op, srcs |-> srcs, dsts |-> dsts]

instr_num_srcs(instr) == Len(instr.srcs)
instr_num_dsts(instr) == Len(instr.dsts)
instr_get_src(instr, i) == instr.srcs[i + 1]
instr_get_dst(instr, i) == instr.dsts[i + 1]
instr_get_opcode(instr) == instr.op
instr_get_target(instr) == instr.srcs[1]

instr_is_return(instr) == instr.op = "OP_ret"
instr_is_ubr(instr) == instr.op = "OP_jmp"
instr_is_cbr(instr) == instr.op = "OP_jz"
instr_is_call_direct(instr) == instr.op = "OP_call"
\* multi-way (indirect) branch: indirect jump, indirect call, return
instr_is_mbr(instr) == instr.op \in {"OP_jmp_ind", "OP_call_ind", "OP_ret"}
instr_is_call(instr) == instr.op \in {"OP_call", "OP_call_ind"}
instr_writes_memory(instr) ==
  \E i \in 0 .. instr_num_dsts(instr) - 1 :
    opnd_is_memory_reference(instr_get_dst(instr, i))
instr_reads_memory(instr) ==
  /\ instr.op # "OP_lea"
  /\ \E i \in 0 .. instr_num_srcs(instr) - 1 :
       opnd_is_memory_reference(instr_get_src(instr, i))

(***************************************************************************)
(* Shadow state operations.  G is the record of the tracer's globals.      *)
(***************************************************************************)
\* is_tainted: register operand, or memory operand by bytes, then by the
\* registers of its address (opnd_get_disp's value is looked up as a register)
is_tainted(G, opnd) ==
  IF opnd_is_reg(opnd)
  THEN reg_to_full_width64(opnd_get_reg(opnd)) \in G.tainted_regs
  ELSE IF opnd_is_memory_reference(opnd)
  THEN \/ \E i \in 0 .. opnd_size_in_bytes(opnd) - 1 :
            opnd_compute_address(opnd) + i \in G.tainted_mems
       \/ /\ opnd_is_base_disp(opnd)
          /\ \/ /\ opnd.base # DR_REG_NULL
                /\ reg_to_full_width64(opnd.base) \in G.tainted_regs
             \/ /\ int_to_reg_id(opnd.disp) # DR_REG_NULL
                /\ reg_to_full_width64(int_to_reg_id(opnd.disp)) \in G.tainted_regs
             \/ /\ opnd.index # DR_REG_NULL
                /\ reg_to_full_width64(opnd.index) \in G.tainted_regs
  ELSE FALSE

\* taint_mem with its loop running from 1 to size
taint_mem_from_one(G, addr, size) ==
  [G EXCEPT !.tainted_mems = @ \cup {addr + i : i \in 1 .. size}]

taint_mem(G, addr, size) ==
  [G EXCEPT !.tainted_mems = @ \cup {addr + i : i \in 0 .. size - 1}]

\* untaint_mem (its bool result feeds only dead variables of the callers)
untaint_mem(G, addr, size) ==
  [G EXCEPT !.tainted_mems = @ \ {addr + i : i \in 0 .. size - 1}]

taint(G, opnd) ==
  IF opnd_is_reg(opnd)
  THEN [G EXCEPT !.tainted_regs =
          @ \cup {reg_to_full_width64(opnd_get_reg(opnd))}]
  ELSE IF opnd_is_memory_reference(opnd)
  THEN taint_mem(G, opnd_compute_address(opnd), opnd_size_in_bytes(opnd))
  ELSE G

\* untaint taking the PC sentinel out of the set with the register
untaint_clearing_pc(G, opnd) ==
  IF opnd_is_reg(opnd)
  THEN [G EXCEPT !.tainted_regs =
          @ \ {reg_to_full_width64(opnd_get_reg(opnd)),
               reg_to_full_width64(DR_REG_NULL)}]
  ELSE IF opnd_is_memory_reference(opnd)
  THEN untaint_mem(G, opnd_compute_address(opnd), opnd_size_in_bytes(opnd))
  ELSE G

untaint(G, opnd) ==
  IF opnd_is_reg(opnd)
  THEN [G EXCEPT !.tainted_regs =
          @ \ {reg_to_full_width64(opnd_get_reg(opnd))}]
  ELSE IF opnd_is_memory_reference(opnd)
  THEN untaint_mem(G, opnd_compute_address(opnd), opnd_size_in_bytes(opnd))
  ELSE G

\* Is any source operand tainted (the loops `for (i < src_count && !tainted)`).
any_src_tainted(G, instr) ==
  \E i \in 0 .. instr_num_srcs(instr) - 1 : is_tainted(G, instr_get_src(instr, i))

(***************************************************************************)
(* Specialised handlers.  Those that report whether they handled the       *)
(* instruction return [G, result].                                         *)
(***************************************************************************)
\* handle_xor comparing and erasing the registers as named, not widened
handle_xor_as_named(G, instr) ==
  IF /\ instr_num_srcs(instr) = 2
     /\ opnd_is_reg(instr_get_src(instr, 0))
     /\ opnd_is_reg(instr_get_src(instr, 1))
     /\ opnd_get_reg(instr_get_src(instr, 0)) = opnd_get_reg(instr_get_src(instr, 1))
  THEN [G |-> [G EXCEPT !.tainted_regs = @ \ {opnd_get_reg(instr_get_src(instr, 0))}],
        result |-> TRUE]
  ELSE [G |-> G, result |-> FALSE]

handle_xor(G, instr) ==
  IF /\ instr_num_srcs(instr) = 2
     /\ opnd_is_reg(instr_get_src(instr, 0))
     /\ opnd_is_reg(instr_get_src(instr, 1))
     /\ reg_to_full_width64(opnd_get_reg(instr_get_src(instr, 0)))
          = reg_to_full_width64(opnd_get_reg(instr_get_src(instr, 1)))
  THEN [G |-> [G EXCEPT !.tainted_regs =
                 @ \ {reg_to_full_width64(opnd_get_reg(instr_get_src(instr, 0)))}],
        result |-> TRUE]
  ELSE [G |-> G, result |-> FALSE]

\* Is dst a register operand whose full-width form is RSP (skipped by push/pop).
is_rsp_dst(opnd) ==
  opnd_is_reg(opnd) /\ reg_to_full_width64(opnd_get_reg(opnd)) = DR_REG_RSP

RECURSIVE push_pop_dsts(_, _, _, _)
\* the two destination loops of handle_push_pop, from destination i on
push_pop_dsts(G, instr, tainted, i) ==
  IF i >= instr_num_dsts(instr) THEN G
  ELSE LET opnd == instr_get_dst(instr, i) IN
       IF is_rsp_dst(opnd) THEN push_pop_dsts(G, instr, tainted, i + 1)
       ELSE push_pop_dsts(IF tainted THEN taint(G, opnd) ELSE untaint(G, opnd),
                          instr, tainted, i + 1)

RECURSIVE push_pop_all_dsts(_, _, _, _)
\* the destination loops of handle_push_pop without the test for RSP
push_pop_all_dsts(G, instr, tainted, i) ==
  IF i >= instr_num_dsts(instr) THEN G
  ELSE push_pop_all_dsts(IF tainted THEN taint(G, instr_get_dst(instr, i))
                         ELSE untaint(G, instr_get_dst(instr, i)),
                         instr, tainted, i + 1)

handle_push_pop_with_rsp(G, instr) ==
  push_pop_all_dsts(G, instr, any_src_tainted(G, instr), 0)

handle_push_pop(G, instr) ==
  push_pop_dsts(G, instr, any_src_tainted(G, instr), 0)

\* handle_xchg inserting the untainted register without erasing the tainted one
handle_xchg_spreading(G, instr) ==
  IF /\ instr_num_srcs(instr) = 2
     /\ opnd_is_reg(instr_get_src(instr, 0))
     /\ opnd_is_reg(instr_get_src(instr, 1))
  THEN LET reg_0 == reg_to_full_width64(opnd_get_reg(instr_get_src(instr, 0)))
           reg_1 == reg_to_full_width64(opnd_get_reg(instr_get_src(instr, 1)))
           reg_0_tainted == reg_0 \in G.tainted_regs
           reg_1_tainted == reg_1 \in G.tainted_regs
       IN IF reg_0_tainted # reg_1_tainted
          THEN [G |-> [G EXCEPT !.tainted_regs = @ \cup {reg_0, reg_1}],
                result |-> TRUE]
          ELSE [G |-> G, result |-> FALSE]
  ELSE [G |-> G, result |-> FALSE]

handle_xchg(G, instr) ==
  IF /\ instr_num_srcs(instr) = 2
     /\ opnd_is_reg(instr_get_src(instr, 0))
     /\ opnd_is_reg(instr_get_src(instr, 1))
  THEN LET reg_0 == reg_to_full_width64(opnd_get_reg(instr_get_src(instr, 0)))
           reg_1 == reg_to_full_width64(opnd_get_reg(instr_get_src(instr, 1)))
           reg_0_tainted == reg_0 \in G.tainted_regs
           reg_1_tainted == reg_1 \in G.tainted_regs
       IN IF reg_0_tainted /\ ~reg_1_tainted
          THEN [G |-> [G EXCEPT !.tainted_regs = (@ \ {reg_0}) \cup {reg_1}],
                result |-> TRUE]
          ELSE IF reg_1_tainted /\ ~reg_0_tainted
          THEN [G |-> [G EXCEPT !.tainted_regs = (@ \ {reg_1}) \cup {reg_0}],
                result |-> TRUE]
          ELSE [G |-> G, result |-> FALSE]
  ELSE [G |-> G, result |-> FALSE]

RECURSIVE taint_first_mem_dst(_, _, _)
\* the loop of handle_branches over a call's destinations: taint the first
\* memory reference and stop
taint_first_mem_dst(G, instr, i) ==
  IF i >= instr_num_dsts(instr) THEN G
  ELSE IF opnd_is_memory_reference(instr_get_dst(instr, i))
  THEN taint(G, instr_get_dst(instr, i))
  ELSE taint_first_mem_dst(G, instr, i + 1)

\* A source register of an indirect branch, other than the stack pointer,
\* that is tainted.
indirect_src_reg_tainted(G, instr) ==
  \E i \in 0 .. instr_num_srcs(instr) - 1 :
    LET opnd == instr_get_src(instr, i) IN
      /\ opnd_is_reg(opnd)
      /\ reg_to_full_width64(opnd_get_reg(opnd)) # reg_to_full_width64(DR_REG_ESP)
      /\ reg_to_full_width64(opnd_get_reg(opnd)) \in G.tainted_regs

\* handle_branches with the direct-branch block moved above the call block,
\* reading the PC's taint afresh in each block
handle_branches_clear_first(G, instr) ==
  LET is_ret == instr_is_return(instr)
      is_direct == instr_is_ubr(instr) \/ instr_is_cbr(instr) \/ instr_is_call_direct(instr)
      is_indirect == instr_is_mbr(instr)
      is_call == instr_is_call(instr)
      reg_pc == reg_to_full_width64(DR_REG_NULL)
      Ga == IF is_direct THEN [G EXCEPT !.tainted_regs = @ \ {reg_pc}] ELSE G
      Gb == IF is_call /\ reg_pc \in Ga.tainted_regs
            THEN taint_first_mem_dst(Ga, instr, 0) ELSE Ga
      Gc == IF is_indirect /\ indirect_src_reg_tainted(Gb, instr)
            THEN [Gb EXCEPT !.tainted_regs = @ \cup {reg_pc}] ELSE Gb
      Gd == IF is_ret
            THEN IF any_src_tainted(Gc, instr)
                 THEN [Gc EXCEPT !.tainted_regs = @ \cup {reg_pc}]
                 ELSE [Gc EXCEPT !.tainted_regs = @ \ {reg_pc}]
            ELSE Gc
  IN IF ~is_ret /\ ~is_direct /\ ~is_indirect /\ ~is_call
     THEN [G |-> G, result |-> FALSE]
     ELSE [G |-> Gd, result |-> TRUE]

handle_branches(G, instr) ==
  LET is_ret == instr_is_return(instr)
      is_direct == instr_is_ubr(instr) \/ instr_is_cbr(instr) \/ instr_is_call_direct(instr)
      is_indirect == instr_is_mbr(instr)
      is_call == instr_is_call(instr)
      reg_pc == reg_to_full_width64(DR_REG_NULL)
      pc_tainted == reg_pc \in G.tainted_regs
      \* call: make the saved return address tainted
      Ga == IF is_call /\ pc_tainted THEN taint_first_mem_dst(G, instr, 0) ELSE G
      \* direct branch or call: untaint pc
      Gb == IF is_direct /\ pc_tainted
            THEN [Ga EXCEPT !.tainted_regs = @ \ {reg_pc}] ELSE Ga
      \* indirect branch or call: taint pc
      Gc == IF is_indirect /\ indirect_src_reg_tainted(Gb, instr)
            THEN [Gb EXCEPT !.tainted_regs = @ \cup {reg_pc}] ELSE Gb
      \* ret
      Gd == IF is_ret
            THEN IF any_src_tainted(Gc, instr)
                 THEN [Gc EXCEPT !.tainted_regs = @ \cup {reg_pc}]
                 ELSE [Gc EXCEPT !.tainted_regs = @ \ {reg_pc}]
            ELSE Gc
  IN IF ~is_ret /\ ~is_direct /\ ~is_indirect /\ ~is_call
     THEN [G |-> G, result |-> FALSE]
     ELSE [G |-> Gd, result |-> TRUE]

handle_specific(G, instr) ==
  LET br == handle_branches(G, instr) IN
  IF br.result THEN br
  ELSE CASE instr_get_opcode(instr) \in {"OP_push", "OP_pop"} ->
              [G |-> handle_push_pop(G, instr), result |-> TRUE]
         [] instr_get_opcode(instr) = "OP_xor" -> handle_xor(G, instr)
         [] instr_get_opcode(instr) = "OP_xchg" -> handle_xchg(G, instr)
         [] OTHER -> [G |-> G, result |-> FALSE]

\* the loop over the destinations leaving after the first one
taint_dsts_first_only(G, instr, i) ==
  IF i >= instr_num_dsts(instr) THEN G ELSE taint(G, instr_get_dst(instr, i))

RECURSIVE taint_dsts(_, _, _)
taint_dsts(G, instr, i) ==
  IF i >= instr_num_dsts(instr) THEN G
  ELSE taint_dsts(taint(G, instr_get_dst(instr, i)), instr, i + 1)

RECURSIVE untaint_dsts(_, _, _)
untaint_dsts(G, instr, i) ==
  IF i >= instr_num_dsts(instr) THEN G
  ELSE untaint_dsts(untaint(G, instr_get_dst(instr, i)), instr, i + 1)

\* The generic rule tainting the destinations whatever the sources are.
propagate_generic_tainting(G, instr) == taint_dsts(G, instr, 0)

\* The generic rule at the end of propagate_taint.
propagate_generic(G, instr) ==
  IF any_src_tainted(G, instr) THEN taint_dsts(G, instr, 0)
  ELSE untaint_dsts(G, instr, 0)

\* Store instruction trace
store_last_insn(G, pc) ==
  IF pc > G.module_start /\ pc < G.module_end
  THEN [G EXCEPT !.last_insns[G.last_insn_idx] = pc,
                 !.last_insn_idx = (G.last_insn_idx + 1) % LAST_COUNT]
  ELSE G

\* Save the address of a call's memory target
store_last_call(G, pc, instr) ==
  IF /\ instr_is_call(instr)
     /\ opnd_is_memory_reference(instr_get_target(instr))
     /\ pc > G.module_start /\ pc < G.module_end
  THEN [G EXCEPT !.last_calls[G.last_call_idx] =
                    opnd_compute_address(instr_get_target(instr)),
                 !.last_call_idx = (G.last_call_idx + 1) % LAST_COUNT]
  ELSE G

\* Does propagate_taint return before decoding (no taint anywhere)?
fast_path(G) == G.tainted_mems = {} /\ G.tainted_regs = {}

propagate_taint(G, pc, instr) ==
  LET G1 == store_last_insn(G, pc) IN
  IF fast_path(G1) THEN G1
  ELSE LET G2 == store_last_call(G1, pc, instr)
           hs == handle_specific(G2, instr)
       IN IF hs.result THEN hs.G ELSE propagate_generic(hs.G, instr)

(***************************************************************************)
(* Input interception: the post-hooks.  info is the client_read_info the   *)
(* pre-hook filled; sane is is_sane_post_hook's answer and targeted is     *)
(* is_function_targeted's.                                                 *)
(***************************************************************************)
\* The block under dr_mutex_lock(mutatex) asking for the mutation whatever
\* the user opted for
replay_mutation_requesting(G, info) ==
  LET G1 == [G EXCEPT !.mutatex_acquired = @ + 1]
      G2 == [G1 EXCEPT !.replay_requests = Append(@, G1.mutate_count)]
  IN [G2 EXCEPT !.mutate_count = @ + 1]

\* The block under dr_mutex_lock(mutatex): request the mutation unless the
\* user opted out, count it, unlock.
replay_mutation(G, info) ==
  LET G1 == [G EXCEPT !.mutatex_acquired = @ + 1]
      G2 == IF G1.no_mutate THEN G1
            ELSE [G1 EXCEPT !.replay_requests = Append(@, G1.mutate_count)]
  \* mutate_count is a uint32_t; MaxReplays keeps it far from wrapping
  IN [G2 EXCEPT !.mutate_count = @ + 1]

\* The cleanup of a post-hook reached by `goto cleanup` past the
\* initialisation of info: it frees through the indeterminate pointer.  stale
\* is the value the build left in it: the hook's own record ("user_data") or
\* anything else ("wild").  What the process does after a wild free is not
\* defined, and the model follows it no further.
cleanup_uninitialised(G, stale) ==
  IF stale = "user_data" THEN G ELSE [G EXCEPT !.proc = "undefined"]

\* wrap_post_Generic counting the call only once it is found targeted
wrap_post_Generic_counting_targeted(G, sane, info, targeted, stale) ==
  IF ~sane THEN cleanup_uninitialised(G, stale)
  ELSE IF ~targeted THEN G
  ELSE LET G1 == [G EXCEPT !.call_count[info.function] = @ + 1]
           G2 == taint_mem(G1, info.lpBuffer, info.nNumberOfBytesToRead)
       IN IF G2.replay THEN replay_mutation(G2, info) ELSE G2

\* wrap_post_Generic marking the buffer whether the call is targeted or not
wrap_post_Generic_taint_all(G, sane, info, targeted, stale) ==
  IF ~sane THEN cleanup_uninitialised(G, stale)
  ELSE LET G1 == [G EXCEPT !.call_count[info.function] = @ + 1]
           G2 == taint_mem(G1, info.lpBuffer, info.nNumberOfBytesToRead)
       IN IF G2.replay /\ targeted THEN replay_mutation(G2, info) ELSE G2

\* wrap_post_Generic
wrap_post_Generic(G, sane, info, targeted, stale) ==
  IF ~sane THEN cleanup_uninitialised(G, stale)
  ELSE LET G1 == [G EXCEPT !.call_count[info.function] = @ + 1]
           G2 == IF targeted
                 THEN taint_mem(G1, info.lpBuffer, info.nNumberOfBytesToRead)
                 ELSE G1
       IN IF G2.replay /\ targeted THEN replay_mutation(G2, info) ELSE G2

\* wrap_post_MapViewOfFile marking the view whether the call is targeted or not
wrap_post_MapViewOfFile_taint_all(G, sane, info, retval, region_size, name_ok, targeted, stale) ==
  IF ~sane THEN cleanup_uninitialised(G, stale)
  ELSE LET info1 == [info EXCEPT
                       !.lpBuffer = retval,
                       !.nNumberOfBytesToRead = IF @ = 0 THEN region_size ELSE @]
           G1 == [G EXCEPT !.call_count[info1.function] = @ + 1]
           G2 == taint_mem(G1, info1.lpBuffer, info1.nNumberOfBytesToRead)
       IN IF name_ok /\ G2.replay /\ targeted
          THEN replay_mutation(G2, info1) ELSE G2

\* wrap_post_MapViewOfFile.  retval is the mapped view, region_size the
\* answer of dr_virtual_query, name_ok that of GetMappedFileName.
wrap_post_MapViewOfFile(G, sane, info, retval, region_size, name_ok, targeted, stale) ==
  IF ~sane THEN cleanup_uninitialised(G, stale)
  ELSE LET info1 == [info EXCEPT
                       !.lpBuffer = retval,
                       !.nNumberOfBytesToRead = IF @ = 0 THEN region_size ELSE @]
           interesting_call == name_ok
           G1 == [G EXCEPT !.call_count[info1.function] = @ + 1]
           G2 == IF targeted
                 THEN taint_mem(G1, info1.lpBuffer, info1.nNumberOfBytesToRead)
                 ELSE G1
       IN IF interesting_call /\ G2.replay /\ targeted
          THEN replay_mutation(G2, info1) ELSE G2

(***************************************************************************)
(* Exception triage.                                                       *)
(***************************************************************************)
EXCEPTION_ACCESS_VIOLATION == "EXCEPTION_ACCESS_VIOLATION"
EXCEPTION_ILLEGAL_INSTRUCTION == "EXCEPTION_ILLEGAL_INSTRUCTION"
EXCEPTION_INT_DIVIDE_BY_ZERO == "EXCEPTION_INT_DIVIDE_BY_ZERO"
EXCEPTION_BREAKPOINT == "EXCEPTION_BREAKPOINT"

\* The arguments of one dump_crash call.
CrashArgs(reason, score, pc_tainted, stack_tainted, is_ret, is_indirect, is_direct, is_call, mem_write, mem_read, tainted_src, tainted_dst) ==
  [reason |-> reason, score |-> score, pc_tainted |-> pc_tainted,
   stack_tainted |-> stack_tainted, is_ret |-> is_ret,
   is_indirect |-> is_indirect, is_direct |-> is_direct, is_call |-> is_call,
   mem_write |-> mem_write, mem_read |-> mem_read,
   tainted_src |-> tainted_src, tainted_dst |-> tainted_dst]

\* The ladder of on_exception: the arguments of the first dump_crash call it
\* reaches (dump_crash does not return).  F holds what the handler reads:
\* bad_ptr (IsBadReadPtr), code, the classification of the decoded
\* instruction, pc_tainted, stack_tainted, and src_taint / dst_taint, the
\* answers of the operand survey when the ladder gets as far as running it.
\* the ladder with the return block tried before the branch block
score_ladder_ret_first(F) ==
  IF F.bad_ptr
  THEN CrashArgs(IF F.pc_tainted THEN "oob execution tainted pc" ELSE "oob execution",
                 IF F.pc_tainted THEN 100 ELSE 50,
                 F.pc_tainted, F.stack_tainted, FALSE, FALSE, FALSE, FALSE,
                 FALSE, FALSE, FALSE, FALSE)
  ELSE IF F.code = EXCEPTION_ILLEGAL_INSTRUCTION
  THEN CrashArgs(IF F.pc_tainted THEN "illegal instruction tainted pc"
                                 ELSE "illegal instruction",
                 IF F.pc_tainted THEN 100 ELSE 50,
                 F.pc_tainted, F.stack_tainted, FALSE, FALSE, FALSE, FALSE,
                 FALSE, FALSE, FALSE, FALSE)
  ELSE IF F.code = EXCEPTION_INT_DIVIDE_BY_ZERO
  THEN CrashArgs("divide by zero", 50, F.pc_tainted, F.stack_tainted, F.is_ret,
                 F.is_indirect, F.is_direct, F.is_call, F.mem_write, F.mem_read,
                 FALSE, FALSE)
  ELSE IF F.code = EXCEPTION_BREAKPOINT
  THEN CrashArgs("breakpoint", 25, F.pc_tainted, F.stack_tainted, F.is_ret,
                 F.is_indirect, F.is_direct, F.is_call, F.mem_write, F.mem_read,
                 FALSE, FALSE)
  ELSE IF F.is_ret
  THEN CrashArgs(IF F.pc_tainted \/ F.stack_tainted THEN "return with taint" ELSE "return",
                 IF F.pc_tainted \/ F.stack_tainted THEN 100 ELSE 75,
                 F.pc_tainted, F.stack_tainted, F.is_ret,
                 F.is_indirect, F.is_direct, F.is_call, F.mem_write, F.mem_read,
                 FALSE, FALSE)
  ELSE IF F.is_direct \/ F.is_indirect \/ F.is_call
  THEN CrashArgs(IF F.pc_tainted THEN "branching tainted pc" ELSE "branching",
                 IF F.pc_tainted THEN 75 ELSE 25,
                 F.pc_tainted, F.stack_tainted, F.is_ret,
                 F.is_indirect, F.is_direct, F.is_call, F.mem_write, F.mem_read,
                 FALSE, FALSE)
  ELSE IF F.mem_write
  THEN CrashArgs(IF F.src_taint \/ F.dst_taint THEN "tainted write" ELSE "write",
                 IF F.src_taint \/ F.dst_taint THEN 75 ELSE 50,
                 F.pc_tainted, F.stack_tainted, F.is_ret,
                 F.is_indirect, F.is_direct, F.is_call, F.mem_write, F.mem_read,
                 F.src_taint, F.dst_taint)
  ELSE IF F.mem_read
  THEN CrashArgs(IF F.src_taint THEN "tainted read" ELSE "read",
                 IF F.src_taint THEN 75 ELSE 25,
                 F.pc_tainted, F.stack_tainted, F.is_ret,
                 F.is_indirect, F.is_direct, F.is_call, F.mem_write, F.mem_read,
                 F.src_taint, F.dst_taint)
  ELSE CrashArgs("unknown", 50, F.pc_tainted, F.stack_tainted, F.is_ret,
                 F.is_indirect, F.is_direct, F.is_call, F.mem_write, F.mem_read,
                 F.src_taint, F.dst_taint)

\* the ladder with the two scores of its branch block exchanged
score_ladder_branch_swapped(F) ==
  IF F.bad_ptr
  THEN CrashArgs(IF F.pc_tainted THEN "oob execution tainted pc" ELSE "oob execution",
                 IF F.pc_tainted THEN 100 ELSE 50,
                 F.pc_tainted, F.stack_tainted, FALSE, FALSE, FALSE, FALSE,
                 FALSE, FALSE, FALSE, FALSE)
  ELSE IF F.code = EXCEPTION_ILLEGAL_INSTRUCTION
  THEN CrashArgs(IF F.pc_tainted THEN "illegal instruction tainted pc"
                                 ELSE "illegal instruction",
                 IF F.pc_tainted THEN 100 ELSE 50,
                 F.pc_tainted, F.stack_tainted, FALSE, FALSE, FALSE, FALSE,
                 FALSE, FALSE, FALSE, FALSE)
  ELSE IF F.code = EXCEPTION_INT_DIVIDE_BY_ZERO
  THEN CrashArgs("divide by zero", 50, F.pc_tainted, F.stack_tainted, F.is_ret,
                 F.is_indirect, F.is_direct, F.is_call, F.mem_write, F.mem_read,
                 FALSE, FALSE)
  ELSE IF F.code = EXCEPTION_BREAKPOINT
  THEN CrashArgs("breakpoint", 25, F.pc_tainted, F.stack_tainted, F.is_ret,
                 F.is_indirect, F.is_direct, F.is_call, F.mem_write, F.mem_read,
                 FALSE, FALSE)
  ELSE IF F.is_direct \/ F.is_indirect \/ F.is_call
  THEN CrashArgs(IF F.pc_tainted THEN "branching tainted pc" ELSE "branching",
                 IF F.pc_tainted THEN 25 ELSE 75,
                 F.pc_tainted, F.stack_tainted, F.is_ret,
                 F.is_indirect, F.is_direct, F.is_call, F.mem_write, F.mem_read,
                 FALSE, FALSE)
  ELSE IF F.is_ret
  THEN CrashArgs(IF F.pc_tainted \/ F.stack_tainted THEN "return with taint" ELSE "return",
                 IF F.pc_tainted \/ F.stack_tainted THEN 100 ELSE 75,
                 F.pc_tainted, F.stack_tainted, F.is_ret,
                 F.is_indirect, F.is_direct, F.is_call, F.mem_write, F.mem_read,
                 FALSE, FALSE)
  ELSE IF F.mem_write
  THEN CrashArgs(IF F.src_taint \/ F.dst_taint THEN "tainted write" ELSE "write",
                 IF F.src_taint \/ F.dst_taint THEN 75 ELSE 50,
                 F.pc_tainted, F.stack_tainted, F.is_ret,
                 F.is_indirect, F.is_direct, F.is_call, F.mem_write, F.mem_read,
                 F.src_taint, F.dst_taint)
  ELSE IF F.mem_read
  THEN CrashArgs(IF F.src_taint THEN "tainted read" ELSE "read",
                 IF F.src_taint THEN 75 ELSE 25,
                 F.pc_tainted, F.stack_tainted, F.is_ret,
                 F.is_indirect, F.is_direct, F.is_call, F.mem_write, F.mem_read,
                 F.src_taint, F.dst_taint)
  ELSE CrashArgs("unknown", 50, F.pc_tainted, F.stack_tainted, F.is_ret,
                 F.is_indirect, F.is_direct, F.is_call, F.mem_write, F.mem_read,
                 F.src_taint, F.dst_taint)

score_ladder(F) ==
  IF F.bad_ptr
  THEN CrashArgs(IF F.pc_tainted THEN "oob execution tainted pc" ELSE "oob execution",
                 IF F.pc_tainted THEN 100 ELSE 50,
                 F.pc_tainted, F.stack_tainted, FALSE, FALSE, FALSE, FALSE,
                 FALSE, FALSE, FALSE, FALSE)
  ELSE IF F.code = EXCEPTION_ILLEGAL_INSTRUCTION
  THEN CrashArgs(IF F.pc_tainted THEN "illegal instruction tainted pc"
                                 ELSE "illegal instruction",
                 IF F.pc_tainted THEN 100 ELSE 50,
                 F.pc_tainted, F.stack_tainted, FALSE, FALSE, FALSE, FALSE,
                 FALSE, FALSE, FALSE, FALSE)
  ELSE IF F.code = EXCEPTION_INT_DIVIDE_BY_ZERO
  THEN CrashArgs("divide by zero", 50, F.pc_tainted, F.stack_tainted, F.is_ret,
                 F.is_indirect, F.is_direct, F.is_call, F.mem_write, F.mem_read,
                 FALSE, FALSE)
  ELSE IF F.code = EXCEPTION_BREAKPOINT
  THEN CrashArgs("breakpoint", 25, F.pc_tainted, F.stack_tainted, F.is_ret,
                 F.is_indirect, F.is_direct, F.is_call, F.mem_write, F.mem_read,
                 FALSE, FALSE)
  ELSE IF F.is_direct \/ F.is_indirect \/ F.is_call
  THEN CrashArgs(IF F.pc_tainted THEN "branching tainted pc" ELSE "branching",
                 IF F.pc_tainted THEN 75 ELSE 25,
                 F.pc_tainted, F.stack_tainted, F.is_ret,
                 F.is_indirect, F.is_direct, F.is_call, F.mem_write, F.mem_read,
                 FALSE, FALSE)
  ELSE IF F.is_ret
  THEN CrashArgs(IF F.pc_tainted \/ F.stack_tainted THEN "return with taint" ELSE "return",
                 IF F.pc_tainted \/ F.stack_tainted THEN 100 ELSE 75,
                 F.pc_tainted, F.stack_tainted, F.is_ret,
                 F.is_indirect, F.is_direct, F.is_call, F.mem_write, F.mem_read,
                 FALSE, FALSE)
  ELSE IF F.mem_write
  THEN CrashArgs(IF F.src_taint \/ F.dst_taint THEN "tainted write" ELSE "write",
                 IF F.src_taint \/ F.dst_taint THEN 75 ELSE 50,
                 F.pc_tainted, F.stack_tainted, F.is_ret,
                 F.is_indirect, F.is_direct, F.is_call, F.mem_write, F.mem_read,
                 F.src_taint, F.dst_taint)
  ELSE IF F.mem_read
  THEN CrashArgs(IF F.src_taint THEN "tainted read" ELSE "read",
                 IF F.src_taint THEN 75 ELSE 25,
                 F.pc_tainted, F.stack_tainted, F.is_ret,
                 F.is_indirect, F.is_direct, F.is_call, F.mem_write, F.mem_read,
                 F.src_taint, F.dst_taint)
  ELSE CrashArgs("unknown", 50, F.pc_tainted, F.stack_tainted, F.is_ret,
                 F.is_indirect, F.is_direct, F.is_call, F.mem_write, F.mem_read,
                 F.src_taint, F.dst_taint)

\* What on_exception reads of the shadow state, the exception record and the
\* instruction decoded at the exception address.
triage_inputs(G, excpt) ==
  LET instr == excpt.instr IN
  [bad_ptr |-> excpt.bad_ptr,
   code |-> excpt.code,
   pc_tainted |-> reg_to_full_width64(DR_REG_NULL) \in G.tainted_regs,
   stack_tainted |-> reg_to_full_width64(DR_REG_ESP) \in G.tainted_regs,
   is_ret |-> instr_is_return(instr),
   is_direct |-> instr_is_ubr(instr) \/ instr_is_cbr(instr) \/ instr_is_call_direct(instr),
   is_indirect |-> instr_is_mbr(instr),
   is_call |-> instr_is_call(instr),
   mem_write |-> instr_writes_memory(instr),
   mem_read |-> instr_reads_memory(instr),
   src_taint |-> any_src_tainted(G, instr),
   dst_taint |-> \E i \in 0 .. instr_num_dsts(instr) - 1 :
                    is_tainted(G, instr_get_dst(instr, i))]

\* A set of addresses as the ascending sequence std::set iterates.
RECURSIVE ascending(_)
ascending(S) ==
  IF S = {} THEN << >>
  ELSE LET m == CHOOSE x \in S : \A y \in S : x <= y
       IN <<m>> \o ascending(S \ {m})

RECURSIVE coalesce_at_touch(_, _, _, _, _)
\* the loop closing an extent as soon as the next address reaches its end
coalesce_at_touch(mems, i, start, size, out) ==
  IF i > Len(mems) THEN Append(out, [start |-> start, size |-> size])
  ELSE LET curr == mems[i] IN
       IF curr >= start + size
       THEN coalesce_at_touch(mems, i + 1, curr, 1,
                     Append(out, [start |-> start, size |-> size]))
       ELSE coalesce_at_touch(mems, i + 1, start, size + 1, out)

RECURSIVE coalesce(_, _, _, _, _)
\* the loop of dump_json over tainted_mems from position i, with the extent
\* (start, size) being built and the extents already pushed
coalesce(mems, i, start, size, out) ==
  IF i > Len(mems) THEN Append(out, [start |-> start, size |-> size])
  ELSE LET curr == mems[i] IN
       IF curr > start + size
       THEN coalesce(mems, i + 1, curr, 1,
                     Append(out, [start |-> start, size |-> size]))
       ELSE coalesce(mems, i + 1, start, size + 1, out)

\* j["tainted_addrs"]
tainted_addrs(G) ==
  IF Cardinality(G.tainted_mems) > 0
  THEN LET mems == ascending(G.tainted_mems)
       IN coalesce(mems, 2, mems[1], 1, << >>)
  ELSE << >>

\* the rings listed from slot 0, wherever the write index is
ring_dump_from_zero(ring, idx) ==
  [i \in 1 .. LAST_COUNT |-> ring[i - 1]]

\* j["last_calls"] / j["last_insns"]: LAST_COUNT entries from the write index
ring_dump(ring, idx) ==
  [i \in 1 .. LAST_COUNT |-> ring[(idx + (i - 1)) % LAST_COUNT]]

\* The registers dump_json lists, in its order.
dump_regs16 ==
  << DR_REG_RAX, DR_REG_RBX, DR_REG_RCX, DR_REG_RDX, DR_REG_RSP, DR_REG_RBP,
     DR_REG_RSI, DR_REG_RDI, DR_REG_R8, DR_REG_R9, DR_REG_R10, DR_REG_R11,
     DR_REG_R12, DR_REG_R13, DR_REG_R14, DR_REG_R15 >>

\* dump_json reporting the operands' taint as the shadow state has it
dump_json_reading_operands(G, excpt, a) ==
  [score |-> a.score, reason |-> a.reason, exception |-> excpt.code,
   pc_tainted |-> a.pc_tainted, stack_tainted |-> a.stack_tainted,
   is_ret |-> a.is_ret, is_indirect |-> a.is_indirect,
   is_direct |-> a.is_direct, is_call |-> a.is_call,
   mem_write |-> a.mem_write, mem_read |-> a.mem_read,
   tainted_src |-> any_src_tainted(G, excpt.instr),
   tainted_dst |-> \E i \in 0 .. instr_num_dsts(excpt.instr) - 1 :
                      is_tainted(G, instr_get_dst(excpt.instr, i)),
   regs |-> [i \in 1 .. 16 |-> dump_regs16[i] \in G.tainted_regs],
   rip |-> DR_REG_NULL \in G.tainted_regs,
   last_calls |-> ring_dump(G.last_calls, G.last_call_idx),
   last_insns |-> ring_dump(G.last_insns, G.last_insn_idx),
   tainted_addrs |-> tainted_addrs(G)]

\* dump_json: the crash report (register values and disassembly left out)
dump_json(G, excpt, a) ==
  [score |-> a.score, reason |-> a.reason, exception |-> excpt.code,
   pc_tainted |-> a.pc_tainted, stack_tainted |-> a.stack_tainted,
   is_ret |-> a.is_ret, is_indirect |-> a.is_indirect,
   is_direct |-> a.is_direct, is_call |-> a.is_call,
   mem_write |-> a.mem_write, mem_read |-> a.mem_read,
   tainted_src |-> a.tainted_src, tainted_dst |-> a.tainted_dst,
   regs |-> [i \in 1 .. 16 |-> dump_regs16[i] \in G.tainted_regs],
   rip |-> DR_REG_NULL \in G.tainted_regs,
   last_calls |-> ring_dump(G.last_calls, G.last_call_idx),
   last_insns |-> ring_dump(G.last_insns, G.last_insn_idx),
   tainted_addrs |-> tainted_addrs(G)]

\* on_dr_exit reporting every run as one that did not crash
on_dr_exit_no_crash(G) ==
  [G EXCEPT !.exit_record =
     [success |-> FALSE, message |-> "replay did not cause a crash"]]

\* on_dr_exit: the end-of-run record
on_dr_exit(G) ==
  [G EXCEPT !.exit_record =
     [success |-> G.crashed,
      message |-> IF ~G.crashed THEN "replay did not cause a crash"
                  ELSE "replay caused a crash"]]

\* dr_exit_process(code): the exit event runs, then the process ends
dr_exit_process(G, code) ==
  [on_dr_exit(G) EXCEPT !.proc = "exited", !.exit_code = code]

\* dr_abort(): the process ends at once, no exit event
dr_abort(G) == [G EXCEPT !.proc = "aborted"]

\* dump_crash writing its two files in every run mode
dump_crash_any_mode(G, excpt, a, io) ==
  LET G0 == [G EXCEPT !.crash_json = Append(@, dump_json(G, excpt, a))] IN
  IF ~io.crash_open THEN dr_abort(G0)
  ELSE IF ~io.crash_write THEN dr_abort(G0)
  ELSE LET G1 == [G0 EXCEPT !.json_writes = @ + 1]
           G2 == IF io.dump_open /\ io.dump_write
                 THEN [G1 EXCEPT !.minidump_writes = @ + 1,
                                 !.minidump_info = Append(@, G1.trace_exception_ctx)]
                 ELSE G1
       IN dr_exit_process(G2, 1)

\* dump_crash.  io holds the answers of the file system: crash_open and
\* crash_write (CreateFile / WriteFile on crash_path), dump_open (CreateFile
\* on mem_dump_path) and dump_write (MiniDumpWriteDump on a valid handle).
dump_crash(G, excpt, a, io) ==
  LET G0 == [G EXCEPT !.crash_json = Append(@, dump_json(G, excpt, a))] IN
  IF G0.replay
  THEN IF ~io.crash_open THEN dr_abort(G0)
       ELSE IF ~io.crash_write THEN dr_abort(G0)
       ELSE LET G1 == [G0 EXCEPT !.json_writes = @ + 1]
                \* a failed open of the dump file is only logged; the dump is
                \* then written through the invalid handle and fails
                G2 == IF io.dump_open /\ io.dump_write
                      THEN [G1 EXCEPT !.minidump_writes = @ + 1,
                                      !.minidump_info = Append(@, G1.trace_exception_ctx)]
                      ELSE G1
            IN dr_exit_process(G2, 1)
  ELSE dr_exit_process(G0, 1)

\* on_exception consuming the PC's taint as it reads it
on_exception_consuming(G, excpt, F, io) ==
  LET G1 == [G EXCEPT !.crashed = TRUE,
                      !.trace_exception_ctx =
                         [thread_id |-> excpt.thread_id,
                          thread_ctx |-> excpt.mcontext,
                          record |-> excpt.record],
                      !.tainted_regs = @ \ {reg_to_full_width64(DR_REG_NULL)}]
  IN dump_crash(G1, excpt, score_ladder(F), io)

\* on_exception, given in F what it reads on its way down the ladder
on_exception_reading(G, excpt, F, io) ==
  LET G1 == [G EXCEPT !.crashed = TRUE,
                      !.trace_exception_ctx =
                         [thread_id |-> excpt.thread_id,
                          thread_ctx |-> excpt.mcontext,
                          record |-> excpt.record]]
  IN dump_crash(G1, excpt, score_ladder(F), io)

\* on_exception
on_exception(G, excpt, io) ==
  on_exception_reading(G, excpt, triage_inputs(G, excpt), io)

(***************************************************************************)
(* The instructions and buffers of the model.  Memory map: the intercepted *)
(* read's buffer at BufAddr, one global byte at VarAddr, one stack slot at *)
(* SlotAddr.                                                               *)
(***************************************************************************)
BufAddr == 0
VarAddr == BufAddr + MaxRead
SlotAddr == VarAddr + 1

RAX == OpReg(DR_REG_RAX)
EAX == OpReg(DR_REG_EAX)
AL == OpReg(DR_REG_AL)
RBX == OpReg(DR_REG_RBX)
RSP == OpReg(DR_REG_RSP)
SIL == OpReg(DR_REG_SIL)
\* byte [rbx], resolving to the first byte of the buffer
BufByte == OpMem(BufAddr, 1, DR_REG_RBX, DR_REG_NULL, 0)
\* byte [VarAddr]
VarByte == OpAbs(VarAddr, 1)
\* the slot a push or call writes, [rsp - slot], and a pop or ret reads, [rsp]
PushSlot == OpMem(SlotAddr, StackSlotSize, DR_REG_RSP, DR_REG_NULL, 0 - StackSlotSize)
PopSlot == OpMem(SlotAddr, StackSlotSize, DR_REG_RSP, DR_REG_NULL, 0)
\* a function pointer kept in the buffer
FnPtr == OpAbs(BufAddr, 1)

\* the whole buffer, [rbx]
BufAll == OpMem(BufAddr, MaxRead, DR_REG_RBX, DR_REG_NULL, 0)

mov_al_buf == Instr("OP_mov_ld", <<BufByte>>, <<AL>>)
mov_buf_imm == Instr("OP_mov_st", <<OpImm>>, <<BufAll>>)
mov_rbx_rax == Instr("OP_mov_ld", <<RAX>>, <<RBX>>)
mov_rax_rbx == Instr("OP_mov_ld", <<RBX>>, <<RAX>>)
mov_var_al == Instr("OP_mov_st", <<AL>>, <<VarByte>>)
mov_sil_al == Instr("OP_mov_ld", <<AL>>, <<SIL>>)
mov_rsp_rax == Instr("OP_mov_ld", <<RAX>>, <<RSP>>)
mov_eax_imm == Instr("OP_mov_imm", <<OpImm>>, <<EAX>>)
xor_eax_eax == Instr("OP_xor", <<EAX, EAX>>, <<EAX>>)
xor_rax_rbx == Instr("OP_xor", <<RBX, RAX>>, <<RAX>>)
xchg_rax_rbx == Instr("OP_xchg", <<RAX, RBX>>, <<RAX, RBX>>)
push_rax == Instr("OP_push", <<RAX, RSP>>, <<RSP, PushSlot>>)
pop_rbx == Instr("OP_pop", <<RSP, PopSlot>>, <<RBX, RSP>>)
call_direct == Instr("OP_call", <<OpPc, RSP>>, <<RSP, PushSlot>>)
call_rax == Instr("OP_call_ind", <<RAX, RSP>>, <<RSP, PushSlot>>)
call_mem == Instr("OP_call_ind", <<FnPtr, RSP>>, <<RSP, PushSlot>>)
jmp_direct == Instr("OP_jmp", <<OpPc>>, << >>)
jz_direct == Instr("OP_jz", <<OpPc>>, << >>)
jmp_rax == Instr("OP_jmp_ind", <<RAX>>, << >>)
ret == Instr("OP_ret", <<RSP, PopSlot>>, <<RSP>>)
nop == Instr("OP_nop", << >>, << >>)

Instrs ==
  { mov_al_buf, mov_buf_imm, mov_rbx_rax, mov_rax_rbx, mov_var_al, mov_sil_al, mov_rsp_rax,
    mov_eax_imm, xor_eax_eax, xor_rax_rbx, xchg_rax_rbx, push_rax, pop_rbx,
    call_direct, call_rax, call_mem, jmp_direct, jz_direct, jmp_rax, ret, nop }

\* The entry points whose post-hooks the model runs.
Functions == {"ReadFile", "MapViewOfFile"}

ReadInfo(fn, buf, n) ==
  [function |-> fn, lpBuffer |-> buf, nNumberOfBytesToRead |-> n]

(***************************************************************************)
(* State: the tracer's globals, what it has sent or written, and what the  *)
(* process has come to.                                                    *)
(***************************************************************************)
VARIABLES
  tainted_regs, tainted_mems,
  last_insns, last_insn_idx, last_calls, last_call_idx,
  module_start, module_end,
  replay, no_mutate, crashed, mutate_count, trace_exception_ctx,
  replay_requests,     \* the indices sl2_conn_request_replay was called with
  call_count,          \* client.increment_call_count's counters
  mutatex_acquired,    \* how many times mutatex was locked
  crash_json,          \* the reports dump_json produced
  json_writes,         \* crash reports written to crash_path
  minidump_writes,     \* minidumps written to mem_dump_path
  minidump_info,       \* the exception snapshot each minidump was given
  proc, exit_code, exit_record,
  last_branch,         \* conclusion of the last branch-family instruction
  triage_in,           \* what the last triage read
  hook_log,            \* what the last post-hook was given and answered
  triage_io,           \* what the file system answered the last triage
  mutatex,             \* the thread holding the replay mutex, 0 when free
  threads,             \* where each guest thread is inside a callback
  window,              \* the callbacks that have overlapped since all was idle
  trace                \* the last pc given to propagate_taint, and what the rings took in

vars ==
  << tainted_regs, tainted_mems, last_insns, last_insn_idx, last_calls,
     last_call_idx, module_start, module_end, replay, no_mutate, crashed,
     mutate_count, trace_exception_ctx, replay_requests, call_count,
     mutatex_acquired, crash_json, json_writes, minidump_writes,
     minidump_info, proc, exit_code, exit_record, last_branch, triage_in,
     hook_log, triage_io, mutatex, threads, window, trace >>

conc_vars == <<mutatex, threads, window, trace>>

\* The globals as one record, and back.
Globals ==
  [tainted_regs |-> tainted_regs, tainted_mems |-> tainted_mems,
   last_insns |-> last_insns, last_insn_idx |-> last_insn_idx,
   last_calls |-> last_calls, last_call_idx |-> last_call_idx,
   module_start |-> module_start, module_end |-> module_end,
   replay |-> replay, no_mutate |-> no_mutate, crashed |-> crashed,
   mutate_count |-> mutate_count, trace_exception_ctx |-> trace_exception_ctx,
   replay_requests |-> replay_requests, call_count |-> call_count,
   mutatex_acquired |-> mutatex_acquired,
   crash_json |-> crash_json, json_writes |-> json_writes,
   minidump_writes |-> minidump_writes, minidump_info |-> minidump_info,
   proc |-> proc, exit_code |-> exit_code, exit_record |-> exit_record]

SetGlobals(R) ==
  /\ tainted_regs' = R.tainted_regs
  /\ tainted_mems' = R.tainted_mems
  /\ last_insns' = R.last_insns
  /\ last_insn_idx' = R.last_insn_idx
  /\ last_calls' = R.last_calls
  /\ last_call_idx' = R.last_call_idx
  /\ module_start' = R.module_start
  /\ module_end' = R.module_end
  /\ replay' = R.replay
  /\ no_mutate' = R.no_mutate
  /\ crashed' = R.crashed
  /\ mutate_count' = R.mutate_count
  /\ trace_exception_ctx' = R.trace_exception_ctx
  /\ replay_requests' = R.replay_requests
  /\ call_count' = R.call_count
  /\ mutatex_acquired' = R.mutatex_acquired
  /\ crash_json' = R.crash_json
  /\ json_writes' = R.json_writes
  /\ minidump_writes' = R.minidump_writes
  /\ minidump_info' = R.minidump_info
  /\ proc' = R.proc
  /\ exit_code' = R.exit_code
  /\ exit_record' = R.exit_record

NoSnapshot == [thread_id |-> 0, thread_ctx |-> 0, record |-> 0]
NoRecord == [success |-> FALSE, message |-> "none"]
NoTriage == [bad_ptr |-> FALSE, code |-> "none"]

\* The file system's answers to dump_crash.
IoAllOk ==
  [crash_open |-> TRUE, crash_write |-> TRUE, dump_open |-> TRUE,
   dump_write |-> TRUE]
\* every call succeeds, or one of them is the first to fail
IoAnswers ==
  { IoAllOk,
    [IoAllOk EXCEPT !.crash_open = FALSE],
    [IoAllOk EXCEPT !.crash_write = FALSE],
    [IoAllOk EXCEPT !.dump_open = FALSE],
    [IoAllOk EXCEPT !.dump_write = FALSE] }
NoIo == [crash_open |-> FALSE]

\* What a post-hook was given and answered: which hook, is_sane_post_hook,
\* is_function_targeted, and whether the mapped file's name resolved.
HookEvent(hook, sane, targeted, interesting) ==
  [hook |-> hook, sane |-> sane, targeted |-> targeted, interesting |-> interesting]

NoHook == HookEvent("none", FALSE, FALSE, FALSE)

\* The guest's threads.
NumThreads == 2
Threads == 1 .. NumThreads

\* A thread outside every callback, and one inside one: at is the point it
\* has reached, instr the instruction of its clean call and tainted what it
\* found of the sources.
Idle == [at |-> "idle", instr |-> nop, tainted |-> FALSE]
ThreadAt(at, instr, tainted) == [at |-> at, instr |-> instr, tainted |-> tainted]

\* The callbacks a window holds for a thread: none, one, or more than one.
CallbackOp(kind, instr, fn, n, name_ok) ==
  [kind |-> kind, instr |-> instr, fn |-> fn, n |-> n, name_ok |-> name_ok]
NoOp == CallbackOp("none", nop, "none", 0, FALSE)
ManyOps == CallbackOp("many", nop, "none", 0, FALSE)
InstrOp(instr) == CallbackOp("instr", instr, "none", 0, FALSE)
HookOp(fn, n, name_ok) == CallbackOp("hook", nop, fn, n, name_ok)
NoShadow == [regs |-> {}, mems |-> {}]

\* Nothing given to propagate_taint yet, nothing taken in by the rings.
NoTrace == [pc |-> 0, insns |-> << >>, calls |-> << >>]

\* The state dr_client_main leaves, but for the options and the shadow state.
InitRest ==
  /\ last_insns = [i \in 0 .. LAST_COUNT - 1 |-> 0]
  /\ last_insn_idx = 0
  /\ last_calls = [i \in 0 .. LAST_COUNT - 1 |-> 0]
  /\ last_call_idx = 0
  /\ module_start = 0
  /\ module_end = 0
  /\ crashed = FALSE
  /\ mutate_count = 0
  /\ trace_exception_ctx = NoSnapshot
  /\ replay_requests = << >>
  /\ call_count = [f \in Functions |-> 0]
  /\ mutatex_acquired = 0
  /\ crash_json = << >>
  /\ json_writes = 0
  /\ minidump_writes = 0
  /\ minidump_info = << >>
  /\ proc = "running"
  /\ exit_code = 0
  /\ exit_record = NoRecord
  /\ last_branch = "none"
  /\ hook_log = NoHook
  /\ triage_io = NoIo
  /\ mutatex = 0
  /\ threads = [t \in Threads |-> Idle]
  /\ window = [base |-> NoShadow, ops |-> [t \in Threads |-> NoOp]]
  /\ trace = NoTrace

\* The state dr_client_main leaves, but for the options: nothing tainted.
InitState ==
  /\ InitRest
  /\ tainted_regs = {}
  /\ tainted_mems = {}

\* The options parsed: -r (replay) and -nm (no-mutate) given or not.
Init ==
  /\ InitState
  /\ replay \in BOOLEAN
  /\ no_mutate \in BOOLEAN
  /\ triage_in = NoTriage

(***************************************************************************)
(* Actions: one per callback.                                              *)
(***************************************************************************)
\* An instruction address of the guest.
PcAny == 1

\* Is instr of the branch family (handle_branches takes it)?
is_branch_family(instr) ==
  \/ instr_is_return(instr) \/ instr_is_ubr(instr) \/ instr_is_cbr(instr)
  \/ instr_is_call_direct(instr) \/ instr_is_mbr(instr) \/ instr_is_call(instr)

\* Did the branch-family instruction find the next PC derived from tainted
\* data: a return with a tainted source operand, or an indirect branch or call
\* with a tainted source register other than the stack pointer.
branch_concludes_tainted(G, instr) ==
  \/ instr_is_return(instr) /\ any_src_tainted(G, instr)
  \/ instr_is_mbr(instr) /\ indirect_src_reg_tainted(G, instr)

\* The clean call before the instruction at pc.
Propagate(pc, instr) ==
  /\ proc = "running"
  /\ SetGlobals(propagate_taint(Globals, pc, instr))
  /\ UNCHANGED <<triage_in, hook_log, triage_io>>
  /\ UNCHANGED conc_vars

\* What the instruction propagate_taint has just been given concluded about
\* the next PC, for the observers of the branch family.
ObserveBranch(instr) ==
  last_branch' = IF is_branch_family(instr)
                 THEN IF branch_concludes_tainted(Globals, instr)
                      THEN "tainted" ELSE "clean"
                 ELSE last_branch

TotalCalls == call_count["ReadFile"] + call_count["MapViewOfFile"]

\* The post-hook of a generic read (ReadFile, recv, fread, ...).
PostGeneric(sane, n, targeted, stale) ==
  /\ proc = "running"
  /\ sane => TotalCalls < MaxCalls
  /\ (sane /\ replay /\ targeted) => mutate_count < MaxReplays
  /\ SetGlobals(wrap_post_Generic(Globals, sane, ReadInfo("ReadFile", BufAddr, n),
                                  targeted, stale))
  /\ UNCHANGED <<last_branch, triage_in, triage_io>>
  /\ UNCHANGED conc_vars

\* The post-hook of MapViewOfFile; n = 0 is a caller that gave no length.
PostMapViewOfFile(sane, n, region_size, name_ok, targeted, stale) ==
  /\ proc = "running"
  /\ sane => TotalCalls < MaxCalls
  /\ (sane /\ replay /\ targeted /\ name_ok) => mutate_count < MaxReplays
  /\ SetGlobals(wrap_post_MapViewOfFile(Globals, sane,
                  ReadInfo("MapViewOfFile", BufAddr, n), BufAddr, region_size,
                  name_ok, targeted, stale))
  /\ UNCHANGED <<last_branch, triage_in, triage_io>>
  /\ UNCHANGED conc_vars

\* The guest ends without a fault: the exit event, exit code 0.
GuestExit ==
  /\ proc = "running"
  /\ SetGlobals(dr_exit_process(Globals, 0))
  /\ UNCHANGED <<last_branch, triage_in, hook_log, triage_io>>
  /\ UNCHANGED conc_vars

\* A guest exception, or a fastfail / verifier stop redirected to the handler.
Exception(code, bad_ptr, instr, fault) ==
  [code |-> code, bad_ptr |-> bad_ptr, instr |-> instr,
   thread_id |-> fault, mcontext |-> fault, record |-> fault]

ExceptionCodes ==
  { EXCEPTION_ACCESS_VIOLATION, EXCEPTION_ILLEGAL_INSTRUCTION,
    EXCEPTION_INT_DIVIDE_BY_ZERO, EXCEPTION_BREAKPOINT }

\* The exception event.
OnException(excpt, io) ==
  /\ proc = "running"
  /\ SetGlobals(on_exception(Globals, excpt, io))
  /\ triage_in' = triage_inputs(Globals, excpt)
  /\ triage_io' = io
  /\ UNCHANGED <<last_branch, hook_log>>
  /\ UNCHANGED conc_vars

\* The pointers cleanup may find in the uninitialised info.
StalePointers == {"user_data", "wild"}

\* A post-hook runs, on any of its paths; hook_log records it when observed.
Hooks(observed) ==
  \/ \E stale \in StalePointers :
       /\ PostGeneric(FALSE, 0, FALSE, stale)
       /\ hook_log' = IF observed THEN HookEvent("Generic", FALSE, FALSE, FALSE)
                      ELSE hook_log
  \/ \E n \in 0 .. MaxRead, targeted \in BOOLEAN :
       /\ PostGeneric(TRUE, n, targeted, "user_data")
       /\ hook_log' = IF observed THEN HookEvent("Generic", TRUE, targeted, TRUE)
                      ELSE hook_log
  \/ \E stale \in StalePointers :
       /\ PostMapViewOfFile(FALSE, 0, 0, FALSE, FALSE, stale)
       /\ hook_log' = IF observed THEN HookEvent("MapViewOfFile", FALSE, FALSE, FALSE)
                      ELSE hook_log
  \/ \E n \in 0 .. MaxRead, name_ok \in BOOLEAN, targeted \in BOOLEAN :
       /\ PostMapViewOfFile(TRUE, n, MaxRead, name_ok, targeted, "user_data")
       /\ hook_log' = IF observed THEN HookEvent("MapViewOfFile", TRUE, targeted, name_ok)
                      ELSE hook_log

(***************************************************************************)
(* Spec: the taint engine fed by the interceptor.                          *)
(***************************************************************************)
Next ==
  \/ \E instr \in Instrs : Propagate(PcAny, instr) /\ UNCHANGED last_branch
  \/ Hooks(FALSE)

Spec == Init /\ [][Next]_vars

(***************************************************************************)
(* SpecBranch: Spec with the branch family's conclusions observed.         *)
(***************************************************************************)
NextBranch ==
  \/ \E instr \in Instrs : Propagate(PcAny, instr) /\ ObserveBranch(instr)
  \/ Hooks(FALSE)

SpecBranch == Init /\ [][NextBranch]_vars

(***************************************************************************)
(* SpecTriage: a run that taints, propagates and ends, in a fault or       *)
(* without one.                                                            *)
(***************************************************************************)
\* The instructions the guest runs before it faults or ends.
TriageInstrs == {mov_al_buf, mov_var_al, push_rax, mov_rsp_rax, jmp_rax}

\* The instructions found at the exception address.
FaultInstrs == {ret, call_rax, jmp_direct, mov_var_al, mov_al_buf, nop}

NextTriage ==
  \/ \E instr \in TriageInstrs : Propagate(PcAny, instr) /\ UNCHANGED last_branch
  \/ \E n \in 0 .. MaxRead :
       PostGeneric(TRUE, n, TRUE, "user_data") /\ UNCHANGED hook_log
  \/ \E code \in ExceptionCodes, bad_ptr \in BOOLEAN, instr \in FaultInstrs,
        io \in IoAnswers :
       OnException(Exception(code, bad_ptr, instr, 1), io)
  \/ GuestExit

SpecTriage == Init /\ [][NextTriage]_vars

(***************************************************************************)
(* SpecScore: the handler run once on every combination of what it reads.  *)
(***************************************************************************)
TriageInputs ==
  [bad_ptr : BOOLEAN, code : ExceptionCodes, pc_tainted : BOOLEAN,
   stack_tainted : BOOLEAN, is_ret : BOOLEAN, is_direct : BOOLEAN,
   is_indirect : BOOLEAN, is_call : BOOLEAN, mem_write : BOOLEAN,
   mem_read : BOOLEAN, src_taint : BOOLEAN, dst_taint : BOOLEAN]

InitScore ==
  /\ InitState
  /\ replay \in BOOLEAN
  /\ no_mutate = FALSE
  /\ triage_in \in TriageInputs

\* on_exception with the values it read held in triage_in
ScoreException ==
  /\ proc = "running"
  /\ SetGlobals(on_exception_reading(Globals, Exception(triage_in.code,
                    triage_in.bad_ptr, nop, 1), triage_in, IoAllOk))
  /\ triage_io' = IoAllOk
  /\ UNCHANGED <<last_branch, hook_log, triage_in>>
  /\ UNCHANGED conc_vars

NextScore == ScoreException

SpecScore == InitScore /\ [][NextScore]_vars

(***************************************************************************)
(* SpecHook: the interceptor's post-hooks observed, the guest loading from *)
(* and clearing the buffer in between.                                     *)
(***************************************************************************)
HookInstrs == {mov_al_buf, mov_buf_imm, mov_var_al}

NextHook ==
  \/ \E instr \in HookInstrs : Propagate(PcAny, instr) /\ UNCHANGED last_branch
  \/ Hooks(TRUE)

SpecHook == Init /\ [][NextHook]_vars

(***************************************************************************)
(* SpecOrigin: the post-hooks observed, the guest running every            *)
(* instruction of the model in between.                                    *)
(***************************************************************************)
NextOrigin ==
  \/ \E instr \in Instrs : Propagate(PcAny, instr) /\ UNCHANGED last_branch
  \/ Hooks(TRUE)

SpecOrigin == Init /\ [][NextOrigin]_vars

(***************************************************************************)
(* SpecConc: two guest threads inside the callbacks at once.  A clean call *)
(* reads the shadow state in one step and writes it in a later one; a      *)
(* post-hook taints, then locks, requests, counts and unlocks, each in a   *)
(* step of its own.  Nothing in propagate_taint holds a lock.              *)
(***************************************************************************)
\* The instructions of the racing clean calls: the generic rule's.
ConcInstrs == {mov_al_buf, mov_rbx_rax, mov_rax_rbx}

AllIdle == \A t \in Threads : threads[t].at = "idle"

\* The thread enters a callback: the window opens if every thread was
\* outside, and takes the callback in if not.
EnterCallback(t, op) ==
  window' = IF AllIdle
            THEN [base |-> [regs |-> tainted_regs, mems |-> tainted_mems],
                  ops |-> [u \in Threads |-> IF u = t THEN op ELSE NoOp]]
            ELSE [window EXCEPT !.ops[t] = IF @ = NoOp THEN op ELSE ManyOps]

\* dr_mutex_lock returns once no thread holds the mutex
dr_mutex_unheld_always(m) == TRUE

dr_mutex_unheld(m) == m = 0

\* propagate_taint up to the end of its reads: the fast path, and the loop
\* over the sources
ConcPropagateRead(t, instr) ==
  /\ proc = "running"
  /\ threads[t].at = "idle"
  /\ ~handle_specific(Globals, instr).result
  /\ threads' = [threads EXCEPT ![t] =
                   IF fast_path(Globals) THEN Idle
                   ELSE ThreadAt("write", instr, any_src_tainted(Globals, instr))]
  /\ SetGlobals(store_last_insn(Globals, PcAny))
  /\ EnterCallback(t, InstrOp(instr))
  /\ UNCHANGED <<last_branch, triage_in, hook_log, triage_io, mutatex, trace>>

\* propagate_taint from there: the loops over the destinations
ConcPropagateWrite(t) ==
  /\ proc = "running"
  /\ threads[t].at = "write"
  /\ SetGlobals(IF threads[t].tainted
                THEN taint_dsts(Globals, threads[t].instr, 0)
                ELSE untaint_dsts(Globals, threads[t].instr, 0))
  /\ threads' = [threads EXCEPT ![t] = Idle]
  /\ UNCHANGED <<last_branch, triage_in, hook_log, triage_io, mutatex, window, trace>>

\* The post-hook of a targeted call up to its replay block: wrap_post_Generic
\* for ReadFile, wrap_post_MapViewOfFile (the caller having given the length)
\* for MapViewOfFile, name_ok being GetMappedFileName's answer.
ConcHookTaint(t, fn, n, name_ok) ==
  /\ proc = "running"
  /\ threads[t].at = "idle"
  /\ TotalCalls < MaxCalls
  /\ replay => TotalCalls < MaxReplays
  /\ SetGlobals(taint_mem([Globals EXCEPT !.call_count[fn] = @ + 1],
                          BufAddr, n))
  /\ threads' = [threads EXCEPT ![t] =
                   IF replay /\ (fn = "ReadFile" \/ name_ok)
                   THEN ThreadAt("lock", nop, FALSE) ELSE Idle]
  /\ EnterCallback(t, HookOp(fn, n, name_ok))
  /\ UNCHANGED <<last_branch, triage_in, hook_log, triage_io, mutatex, trace>>

\* dr_mutex_lock(mutatex)
ConcHookLock(t) ==
  /\ proc = "running"
  /\ threads[t].at = "lock"
  /\ dr_mutex_unheld(mutatex)
  /\ mutatex' = t
  /\ SetGlobals([Globals EXCEPT !.mutatex_acquired = @ + 1])
  /\ threads' = [threads EXCEPT ![t].at = "request"]
  /\ UNCHANGED <<last_branch, triage_in, hook_log, triage_io, window, trace>>

\* sl2_conn_request_replay(&sl2_conn, mutate_count, ...), unless no_mutate
ConcHookRequest(t) ==
  /\ proc = "running"
  /\ threads[t].at = "request"
  /\ SetGlobals(IF no_mutate THEN Globals
                ELSE [Globals EXCEPT !.replay_requests = Append(@, mutate_count)])
  /\ threads' = [threads EXCEPT ![t].at = "count"]
  /\ UNCHANGED <<last_branch, triage_in, hook_log, triage_io, mutatex, window, trace>>

\* mutate_count++
ConcHookCount(t) ==
  /\ proc = "running"
  /\ threads[t].at = "count"
  /\ SetGlobals([Globals EXCEPT !.mutate_count = @ + 1])
  /\ threads' = [threads EXCEPT ![t].at = "unlock"]
  /\ UNCHANGED <<last_branch, triage_in, hook_log, triage_io, mutatex, window, trace>>

\* dr_mutex_unlock(mutatex), and the cleanup
ConcHookUnlock(t) ==
  /\ proc = "running"
  /\ threads[t].at = "unlock"
  /\ mutatex' = 0
  /\ threads' = [threads EXCEPT ![t] = Idle]
  /\ SetGlobals(Globals)
  /\ UNCHANGED <<last_branch, triage_in, hook_log, triage_io, window, trace>>

\* The replay block of a post-hook, step by step.
ConcReplay ==
  \/ \E t \in Threads : ConcHookLock(t)
  \/ \E t \in Threads : ConcHookRequest(t)
  \/ \E t \in Threads : ConcHookCount(t)
  \/ \E t \in Threads : ConcHookUnlock(t)

NextConc ==
  \/ \E t \in Threads, instr \in ConcInstrs : ConcPropagateRead(t, instr)
  \/ \E t \in Threads : ConcPropagateWrite(t)
  \/ \E t \in Threads, n \in 1 .. MaxRead : ConcHookTaint(t, "ReadFile", n, TRUE)
  \/ ConcReplay

SpecConc == Init /\ [][NextConc]_vars

(***************************************************************************)
(* SpecReplay: the guest's threads in targeted interceptions at once.      *)
(***************************************************************************)
NextReplay ==
  \/ \E t \in Threads, n \in 0 .. MaxRead : ConcHookTaint(t, "ReadFile", n, TRUE)
  \/ \E t \in Threads, n \in 1 .. MaxRead, name_ok \in BOOLEAN :
       ConcHookTaint(t, "MapViewOfFile", n, name_ok)
  \/ ConcReplay

SpecReplay == Init /\ [][NextReplay]_vars

(***************************************************************************)
(* Properties.                                                             *)
(***************************************************************************)
R_PC == reg_to_full_width64(DR_REG_NULL)

\* C1: every member of the tainted register set is a 64-bit general-purpose
\* register or the PC sentinel; no 8-, 16- or 32-bit alias is ever a member.
C1_OnlyCanonicalRegs == tainted_regs \subseteq (GPR64 \cup {R_PC})

\* The bytes of the slot a call or push writes and a ret or pop reads.
SlotBytes == SlotAddr .. SlotAddr + StackSlotSize - 1

CallInstrs == {call_direct, call_rax, call_mem}

\* C6: a call processed while the PC is tainted taints every byte of the
\* pushed return-address slot, and a return processed while the slot is
\* tainted leaves the PC tainted, whether or not the PC was cleared in between.
C6_CallSavesRetRestores ==
  [][ /\ \A call \in CallInstrs :
           (R_PC \in tainted_regs /\ Globals' = propagate_taint(Globals, PcAny, call))
              => SlotBytes \subseteq tainted_mems'
      /\ (SlotBytes \subseteq tainted_mems
            /\ Globals' = propagate_taint(Globals, PcAny, ret))
              => R_PC \in tainted_regs' ]_vars

\* the return has restored the PC's taint from the slot alone: nothing but
\* the slot is tainted and the last branch-family instruction, which found
\* its source tainted, cannot have been an indirect branch
C6_Witness ==
  /\ tainted_regs = {R_PC}
  /\ tainted_mems = SlotBytes
  /\ last_branch = "tainted"

\* C7: the PC is tainted exactly when the most recently processed
\* branch-family instruction concluded that the next PC derives from tainted
\* data.
C7_PcTaintIsLastBranch ==
  last_branch # "none" => (R_PC \in tainted_regs <=> last_branch = "tainted")

ScoringTable(F) ==
  << [when |-> F.bad_ptr /\ F.pc_tainted,
      reason |-> "oob execution tainted pc", score |-> 100],
     [when |-> F.bad_ptr, reason |-> "oob execution", score |-> 50],
     [when |-> F.code = EXCEPTION_ILLEGAL_INSTRUCTION /\ F.pc_tainted,
      reason |-> "illegal instruction tainted pc", score |-> 100],
     [when |-> F.code = EXCEPTION_ILLEGAL_INSTRUCTION,
      reason |-> "illegal instruction", score |-> 50],
     [when |-> F.code = EXCEPTION_INT_DIVIDE_BY_ZERO,
      reason |-> "divide by zero", score |-> 50],
     [when |-> F.code = EXCEPTION_BREAKPOINT,
      reason |-> "breakpoint", score |-> 25],
     [when |-> (F.is_direct \/ F.is_indirect \/ F.is_call) /\ F.pc_tainted,
      reason |-> "branching tainted pc", score |-> 75],
     [when |-> F.is_direct \/ F.is_indirect \/ F.is_call,
      reason |-> "branching", score |-> 25],
     [when |-> F.is_ret /\ (F.pc_tainted \/ F.stack_tainted),
      reason |-> "return with taint", score |-> 100],
     [when |-> F.is_ret, reason |-> "return", score |-> 75],
     [when |-> F.mem_write /\ (F.src_taint \/ F.dst_taint),
      reason |-> "tainted write", score |-> 75],
     [when |-> F.mem_write, reason |-> "write", score |-> 50],
     [when |-> F.mem_read /\ F.src_taint,
      reason |-> "tainted read", score |-> 75],
     [when |-> F.mem_read, reason |-> "read", score |-> 25],
     [when |-> TRUE, reason |-> "unknown", score |-> 50] >>

FirstMatchingRow(F) ==
  LET rows == ScoringTable(F)
      first == CHOOSE i \in 1 .. Len(rows) :
                 rows[i].when /\ \A j \in 1 .. i - 1 : ~rows[j].when
  IN rows[first]

\* C5: a triage produces exactly one report, and its reason and score are
\* those of the first row of the scoring table that matches what the handler
\* read.
C5_FirstMatchingRowWins ==
  crashed =>
    /\ Len(crash_json) = 1
    /\ crash_json[1].reason = FirstMatchingRow(triage_in).reason
    /\ crash_json[1].score = FirstMatchingRow(triage_in).score

\* a return that is also an indirect branch, with the PC and the stack
\* pointer tainted: the branch row precedes the stronger return row
C5_Witness ==
  /\ crashed
  /\ Len(crash_json) = 1
  /\ triage_in.is_ret /\ triage_in.is_indirect /\ triage_in.stack_tainted
  /\ triage_in.mem_read /\ triage_in.src_taint
  /\ ~triage_in.bad_ptr /\ triage_in.code = EXCEPTION_ACCESS_VIOLATION
  /\ crash_json[1].reason = "branching"
  /\ crash_json[1].score = 25

\* C8: the step that runs the triage leaves the tainted registers and the
\* tainted memory as they were at the handler's entry.
C8_TriageReadsOnly ==
  [][(~crashed /\ crashed') =>
        (tainted_regs' = tainted_regs /\ tainted_mems' = tainted_mems)]_vars

C8_Witness ==
  /\ crashed
  /\ proc = "exited"
  /\ R_PC \in tainted_regs
  /\ tainted_mems # {}
  /\ crash_json[1].pc_tainted

\* The byte addresses an extent covers.
ExtentBytes(e) == e.start .. e.start + e.size - 1

IsStrictCoalescing(extents, mems) ==
  /\ \A i \in 1 .. Len(extents) : extents[i].size >= 1
  /\ \A i \in 1 .. Len(extents) - 1 :
       extents[i].start + extents[i].size < extents[i + 1].start
  /\ UNION {ExtentBytes(extents[i]) : i \in 1 .. Len(extents)} = mems
  /\ mems = {} => extents = << >>

\* C9: the tainted_addrs list of a report is a sequence of extents of size at
\* least 1, ascending, disjoint and non-adjacent, whose bytes are exactly the
\* tainted memory; an empty tainted memory gives an empty list.
C9_TaintedAddrsCoalesced ==
  \A i \in 1 .. Len(crash_json) :
    IsStrictCoalescing(crash_json[i].tainted_addrs, tainted_mems)

\* a report with two extents, one of them of several bytes
C9_Witness ==
  /\ crashed
  /\ Len(crash_json[1].tainted_addrs) = 2
  /\ \E i \in 1 .. 2 : crash_json[1].tainted_addrs[i].size >= 2

\* C10: a post-hook that finds its call not targeted leaves the tainted
\* memory and mutate_count as they were, does not take the replay mutex and
\* requests no replay, in replay mode and outside it.
C10_UntargetedHookInert ==
  [][(TotalCalls' # TotalCalls /\ ~hook_log'.targeted) =>
        /\ tainted_mems' = tainted_mems
        /\ mutate_count' = mutate_count
        /\ mutatex_acquired' = mutatex_acquired
        /\ replay_requests' = replay_requests]_vars

\* an untargeted call intercepted in replay mode, after a targeted one and
\* with the buffer already clean again
C10_Witness ==
  /\ hook_log.sane
  /\ ~hook_log.targeted
  /\ replay
  /\ ~no_mutate
  /\ mutate_count = 1
  /\ tainted_mems = {}
  /\ TotalCalls = 2

\* The shadow state a callback leaves when it runs alone from G.
RunAlone(G, op) ==
  IF op.kind = "instr" THEN propagate_taint(G, PcAny, op.instr)
  ELSE IF op.fn = "ReadFile"
  THEN wrap_post_Generic(G, TRUE, ReadInfo(op.fn, BufAddr, op.n), TRUE,
                         "user_data")
  ELSE wrap_post_MapViewOfFile(G, TRUE, ReadInfo(op.fn, BufAddr, op.n), BufAddr,
                               MaxRead, op.name_ok, TRUE, "user_data")

ShadowOf(G) == [regs |-> G.tainted_regs, mems |-> G.tainted_mems]

\* The threads with exactly one callback in the window.
WindowThreads == {t \in Threads : window.ops[t].kind \in {"instr", "hook"}}

\* The shadow states the two callbacks of the window leave in a serial order.
SerialShadows ==
  LET base == [Globals EXCEPT !.tainted_regs = window.base.regs,
                               !.tainted_mems = window.base.mems]
  IN { ShadowOf(RunAlone(RunAlone(base, window.ops[t]), window.ops[u])) :
         <<t, u>> \in {p \in WindowThreads \X WindowThreads : p[1] # p[2]} }

\* C2: when two callbacks on different threads have overlapped, the tainted
\* registers and memory they leave are those of running the two in some
\* serial order.
C2_ShadowSerialisable ==
  (/\ AllIdle
   /\ Cardinality(WindowThreads) = 2
   /\ \A t \in Threads \ WindowThreads : window.ops[t] = NoOp)
     => ShadowOf(Globals) \in SerialShadows

\* C3: the indices requested of the server are 0, 1, 2, ... in that order,
\* and a thread between its read of mutate_count and the increment holds the
\* replay mutex.
C3_ReplayIndicesInOrder ==
  /\ \A i \in 1 .. Len(replay_requests) : replay_requests[i] = i - 1
  /\ \A t \in Threads :
       threads[t].at \in {"request", "count", "unlock"} => mutatex = t

\* two targeted interceptions that overlapped on the two threads, each
\* having requested its replay
C3_Witness ==
  /\ AllIdle
  /\ Cardinality(WindowThreads) >= 2
  /\ \E t \in WindowThreads : window.ops[t].fn = "MapViewOfFile"
  /\ \E t \in WindowThreads : window.ops[t].fn = "ReadFile"
  /\ Len(replay_requests) = 2
  /\ mutate_count = 2

\* C11: a MapViewOfFile post-hook that cannot resolve the mapped file's name
\* adds no byte to the tainted memory, requests no replay, leaves mutate_count
\* as it was and does not end the process, targeted or not.
C11_UnresolvedNameInert ==
  [][(/\ TotalCalls' # TotalCalls
      /\ hook_log'.hook = "MapViewOfFile"
      /\ ~hook_log'.interesting) =>
        /\ tainted_mems' = tainted_mems
        /\ mutate_count' = mutate_count
        /\ replay_requests' = replay_requests
        /\ proc' = "running"]_vars

\* C12: the cleanup of a post-hook frees the record it was given as user_data
\* and nothing else, on the path of a failed sanity check too: no post-hook
\* leaves the process having freed through another pointer.
C12_CleanupFreesOwnRecord ==
  hook_log.hook # "none" => proc # "undefined"

\* C13: a triage that meets a failing file operation (crash file open or
\* write, dump file open, dump write) aborts there: it never goes on to the
\* exit with code 1.
C13_IoFailureAborts ==
  (crashed /\ replay /\ triage_io # IoAllOk) => proc = "aborted"

(***************************************************************************)
(* SpecRing: the target's module loaded, and instructions at addresses in  *)
(* and around it traced into the rings.                                    *)
(***************************************************************************)
\* The target executable's image: mod->start and the end
\* mod->start + mod->module_internal_size.
ModStart == 10
ModEnd == 13

\* A module as on_module_load sees it; is_exe is strstr(mod_name, ".exe").
Module(is_exe, start, size) == [is_exe |-> is_exe, start |-> start, size |-> size]

\* The target executable, and a library loaded above it.
Modules ==
  { Module(TRUE, ModStart, ModEnd - ModStart), Module(FALSE, ModEnd, 1) }

\* on_module_load: the bounds of the traced module
on_module_load(G, mod) ==
  IF mod.is_exe
  THEN [G EXCEPT !.module_start = mod.start,
                 !.module_end = mod.start + mod.size]
  ELSE G

\* The module-load event.
ModuleLoad(mod) ==
  /\ proc = "running"
  /\ SetGlobals(on_module_load(Globals, mod))
  /\ UNCHANGED <<last_branch, triage_in, hook_log, triage_io>>
  /\ UNCHANGED conc_vars

\* The instruction addresses: the module's, the one below and the one above.
PcRange == ModStart - 1 .. ModEnd

\* call [VarAddr]: a call through a pointer kept outside the module
call_var == Instr("OP_call_ind", <<VarByte, RSP>>, <<RSP, PushSlot>>)

RingInstrs == {nop, call_var}

NextRing ==
  \/ \E mod \in Modules : ModuleLoad(mod)
  \/ \E pc \in PcRange, instr \in RingInstrs :
       Propagate(pc, instr) /\ UNCHANGED last_branch
  \/ PostGeneric(TRUE, 1, TRUE, "user_data") /\ UNCHANGED hook_log

SpecRing == Init /\ [][NextRing]_vars

\* C14: every non-null entry of the PC ring and of the call ring is an
\* address of the traced module, from module_start up to but not including
\* module_end.
C14_RingsInsideModule ==
  \A i \in 0 .. LAST_COUNT - 1 :
    /\ last_insns[i] # 0 =>
         (module_start <= last_insns[i] /\ last_insns[i] < module_end)
    /\ last_calls[i] # 0 =>
         (module_start <= last_calls[i] /\ last_calls[i] < module_end)

(***************************************************************************)
(* SpecRule: the propagation rules one instruction at a time, from every   *)
(* shadow state over a few registers and the bytes of the memory map.  The *)
(* window keeps the shadow state the callback was entered with and the     *)
(* instruction, or the read, it was given.                                 *)
(***************************************************************************)
\* The registers the shadow state starts from, the PC sentinel among them.
RuleRegs == {DR_REG_NULL, DR_REG_RAX, DR_REG_RBX, DR_REG_RSP}

\* The bytes of the memory map.
RuleMems == BufAddr .. SlotAddr + StackSlotSize - 1

\* The registers the instructions name.
RuleOperands == {DR_REG_RAX, DR_REG_EAX, DR_REG_AH, DR_REG_RBX, DR_REG_RSP}

xor_rr(a, b) == Instr("OP_xor", <<OpReg(b), OpReg(a)>>, <<OpReg(a)>>)
xchg_rr(a, b) == Instr("OP_xchg", <<OpReg(a), OpReg(b)>>, <<OpReg(a), OpReg(b)>>)
push_r(a) == Instr("OP_push", <<OpReg(a), RSP>>, <<RSP, PushSlot>>)
pop_r(a) == Instr("OP_pop", <<RSP, PopSlot>>, <<OpReg(a), RSP>>)
\* push / pop of the global byte's word
push_m == Instr("OP_push", <<VarByte, RSP>>, <<RSP, PushSlot>>)
pop_m == Instr("OP_pop", <<RSP, PopSlot>>, <<VarByte, RSP>>)
\* push of an immediate, an opcode of its own
push_imm == Instr("OP_push_imm", <<OpImm, RSP>>, <<RSP, PushSlot>>)
\* a store of n bytes at a from RAX
mov_st(a, n) == Instr("OP_mov_st", <<RAX>>, <<OpAbs(a, n)>>)

PushPopInstrs ==
  {push_r(a) : a \in RuleOperands} \cup {pop_r(a) : a \in RuleOperands}
    \cup {push_m, pop_m, push_imm}

\* a load of the global byte through [rbx + d] into RCX
mov_ld_disp(d) ==
  Instr("OP_mov_ld", <<OpMem(VarAddr, 1, DR_REG_RBX, DR_REG_NULL, d)>>,
        <<OpReg(DR_REG_RCX)>>)

\* The displacements of the loads: none, two small ones, a negative one.
RuleDisps == {0, 1, 8, 0 - 8}

RuleInstrs ==
  {xor_rr(a, b) : a \in RuleOperands, b \in RuleOperands}
    \cup {xchg_rr(a, b) : a \in RuleOperands, b \in RuleOperands}
    \cup PushPopInstrs
    \cup {mov_st(a, n) : a \in {BufAddr, VarAddr}, n \in 1 .. MaxRead}
    \cup {mov_ld_disp(d) : d \in RuleDisps}
    \cup Instrs

\* The shadow state the guest has reached when the rule is applied.
InitRule ==
  /\ InitRest
  /\ tainted_regs \in SUBSET RuleRegs
  /\ tainted_mems \in SUBSET RuleMems
  /\ replay \in BOOLEAN
  /\ no_mutate \in BOOLEAN
  /\ triage_in = NoTriage

\* The clean call before one instruction, whole, on thread 1.
RulePropagate(instr) ==
  /\ proc = "running"
  /\ window.ops[1] = NoOp
  /\ SetGlobals(propagate_taint(Globals, PcAny, instr))
  /\ EnterCallback(1, InstrOp(instr))
  /\ UNCHANGED <<last_branch, triage_in, hook_log, triage_io, mutatex, threads, trace>>

\* The post-hook of a targeted ReadFile, whole, on thread 1.
RuleRead(n) ==
  /\ proc = "running"
  /\ window.ops[1] = NoOp
  /\ SetGlobals(wrap_post_Generic(Globals, TRUE, ReadInfo("ReadFile", BufAddr, n),
                                  TRUE, "user_data"))
  /\ EnterCallback(1, HookOp("ReadFile", n, TRUE))
  /\ UNCHANGED <<last_branch, triage_in, hook_log, triage_io, mutatex, threads, trace>>

\* The post-hook of a targeted MapViewOfFile, whole, on thread 1, the caller
\* having given the length; name_ok is GetMappedFileName's answer.
RuleMap(n, name_ok) ==
  /\ proc = "running"
  /\ window.ops[1] = NoOp
  /\ SetGlobals(wrap_post_MapViewOfFile(Globals, TRUE,
                  ReadInfo("MapViewOfFile", BufAddr, n), BufAddr, MaxRead,
                  name_ok, TRUE, "user_data"))
  /\ EnterCallback(1, HookOp("MapViewOfFile", n, name_ok))
  /\ UNCHANGED <<last_branch, triage_in, hook_log, triage_io, mutatex, threads, trace>>

NextRule ==
  \/ \E instr \in RuleInstrs : RulePropagate(instr)
  \/ \E n \in 0 .. MaxRead : RuleRead(n)
  \/ \E n \in 1 .. MaxRead, name_ok \in BOOLEAN : RuleMap(n, name_ok)

SpecRule == InitRule /\ [][NextRule]_vars


\* The callback applied to the drawn shadow state, and the two registers of
\* its instruction's sources in full width.
RuleOp == window.ops[1]
RuleBase == window.base
RuleReg0 == reg_to_full_width64(opnd_get_reg(instr_get_src(RuleOp.instr, 0)))
RuleReg1 == reg_to_full_width64(opnd_get_reg(instr_get_src(RuleOp.instr, 1)))
RuleTwoRegs ==
  /\ RuleOp.kind = "instr"
  /\ instr_num_srcs(RuleOp.instr) = 2
  /\ opnd_is_reg(instr_get_src(RuleOp.instr, 0))
  /\ opnd_is_reg(instr_get_src(RuleOp.instr, 1))

\* C15: propagate on an xor of two registers with the same canonical form R,
\* R in TR, leaves TR without R and otherwise as it was, and TM as it was.
C15_XorClearsRegister ==
  (/\ RuleTwoRegs
   /\ instr_get_opcode(RuleOp.instr) = "OP_xor"
   /\ RuleReg0 = RuleReg1
   /\ RuleReg0 \in RuleBase.regs) =>
     /\ tainted_regs = RuleBase.regs \ {RuleReg0}
     /\ tainted_mems = RuleBase.mems

\* xor ah, eax applied with RAX, RBX and a byte of the buffer tainted
C15_Witness ==
  /\ RuleOp = InstrOp(xor_rr(DR_REG_AH, DR_REG_EAX))
  /\ RuleBase.regs = {DR_REG_RAX, DR_REG_RBX}
  /\ BufAddr \in RuleBase.mems
  /\ tainted_regs = {DR_REG_RBX}


\* C16: propagate on xchg rA, rB, the canonical forms distinct and exactly
\* one of them in TR, leaves exactly the other in TR, every other member of
\* TR as it was, and TM as it was.
C16_XchgSwapsTaint ==
  (/\ RuleTwoRegs
   /\ instr_get_opcode(RuleOp.instr) = "OP_xchg"
   /\ RuleReg0 # RuleReg1
   /\ (RuleReg0 \in RuleBase.regs) # (RuleReg1 \in RuleBase.regs)) =>
     /\ (RuleReg0 \in tainted_regs) = (RuleReg1 \in RuleBase.regs)
     /\ (RuleReg1 \in tainted_regs) = (RuleReg0 \in RuleBase.regs)
     /\ tainted_regs \ {RuleReg0, RuleReg1} = RuleBase.regs \ {RuleReg0, RuleReg1}
     /\ tainted_mems = RuleBase.mems

\* xchg eax, rbx applied with RAX, RSP and a byte of the buffer tainted
C16_Witness ==
  /\ RuleOp = InstrOp(xchg_rr(DR_REG_EAX, DR_REG_RBX))
  /\ RuleBase.regs = {DR_REG_RAX, DR_REG_RSP}
  /\ BufAddr \in RuleBase.mems
  /\ tainted_regs = {DR_REG_RBX, DR_REG_RSP}


\* The globals with the shadow state the callback was entered with.
RulePre ==
  [Globals EXCEPT !.tainted_regs = RuleBase.regs, !.tainted_mems = RuleBase.mems]

\* C17: propagate on a push or a pop leaves RSP's membership in TR as it
\* was, whatever TR and TM hold; every other destination is tainted or
\* untainted as the generic rule does it.
C17_PushPopKeepsRsp ==
  (RuleOp.kind = "instr" /\ RuleOp.instr \in PushPopInstrs) =>
    LET generic == propagate_generic(RulePre, RuleOp.instr) IN
      /\ (DR_REG_RSP \in tainted_regs) = (DR_REG_RSP \in RuleBase.regs)
      /\ tainted_regs \ {DR_REG_RSP} = generic.tainted_regs \ {DR_REG_RSP}
      /\ tainted_mems = generic.tainted_mems

\* push rax applied with RAX tainted and RSP not: the slot is tainted, RSP
\* is not
C17_Witness ==
  /\ RuleOp = InstrOp(push_r(DR_REG_RAX))
  /\ RuleBase = [regs |-> {DR_REG_RAX}, mems |-> {}]
  /\ tainted_regs = {DR_REG_RAX}
  /\ tainted_mems = SlotBytes


\* The range (a, n) the callback marks tainted: the buffer of a targeted
\* read, or the memory destination of a store whose source is tainted.
RuleMarks ==
  \/ RuleOp.kind = "hook"
  \/ /\ RuleOp.kind = "instr"
     /\ instr_get_opcode(RuleOp.instr) = "OP_mov_st"
     /\ any_src_tainted(RulePre, RuleOp.instr)
RuleRangeAddr ==
  IF RuleOp.kind = "hook" THEN BufAddr
  ELSE opnd_compute_address(instr_get_dst(RuleOp.instr, 0))
RuleRangeSize ==
  IF RuleOp.kind = "hook" THEN RuleOp.n
  ELSE opnd_size_in_bytes(instr_get_dst(RuleOp.instr, 0))
RuleRange == RuleRangeAddr .. RuleRangeAddr + RuleRangeSize - 1

\* C18: once the range (a, n) is marked tainted, by taint_mem of a read's
\* buffer or by taint of an n-byte memory operand at a, every a + i with
\* 0 <= i < n is in TM and TM has gained no address outside [a, a + n).
C18_RangeTaintedExactly ==
  RuleMarks =>
    /\ RuleRange \subseteq tainted_mems
    /\ tainted_mems \ RuleBase.mems \subseteq RuleRange

\* a store of MaxRead bytes at the global byte, from a tainted RAX, with
\* only the first byte of the buffer tainted before
C18_Witness ==
  /\ RuleOp = InstrOp(mov_st(VarAddr, MaxRead))
  /\ RuleBase = [regs |-> {DR_REG_RAX}, mems |-> {BufAddr}]
  /\ tainted_mems = {BufAddr} \cup (VarAddr .. VarAddr + MaxRead - 1)

\* a targeted read of MaxRead bytes into the buffer with nothing tainted
C18_WitnessRead ==
  /\ RuleOp = HookOp("ReadFile", MaxRead, TRUE)
  /\ RuleBase = NoShadow
  /\ tainted_mems = BufAddr .. BufAddr + MaxRead - 1


\* C19: a triage of a faulting return at a readable address, the exception
\* code none of illegal instruction, divide by zero and breakpoint, with
\* R_PC or RSP in TR, reports "return with taint" with score 100 and the
\* PC's taint as TR has it.
C19_TaintedReturnScores100 ==
  (/\ crashed
   /\ Len(crash_json) = 1
   /\ triage_in.is_ret
   /\ ~triage_in.bad_ptr
   /\ triage_in.code \notin {EXCEPTION_ILLEGAL_INSTRUCTION,
                             EXCEPTION_INT_DIVIDE_BY_ZERO, EXCEPTION_BREAKPOINT}
   /\ (R_PC \in tainted_regs \/ DR_REG_RSP \in tainted_regs)) =>
     /\ crash_json[1].reason = "return with taint"
     /\ crash_json[1].score = 100
     /\ crash_json[1].pc_tainted = (R_PC \in tainted_regs)


\* Has the triage handler been entered in this run?
TriageEntered == triage_in # NoTriage

\* C20: crashed is set from the triage handler's entry on and never before;
\* the end-of-run record says success and "replay caused a crash" exactly
\* when the triage handler was entered, and a run that exits without triage
\* reports failure and "replay did not cause a crash".
C20_ExitRecordTellsTriage ==
  /\ crashed = TriageEntered
  /\ exit_record # NoRecord =>
       /\ exit_record.success = TriageEntered
       /\ (exit_record.message = "replay caused a crash") = TriageEntered
  /\ (proc = "exited" /\ ~TriageEntered) =>
       exit_record = [success |-> FALSE, message |-> "replay did not cause a crash"]

\* a run ended by the triage handler, its record written by the exit event
C20_Witness ==
  /\ proc = "exited"
  /\ TriageEntered
  /\ exit_record = [success |-> TRUE, message |-> "replay caused a crash"]

\* a run ended by the guest, its record telling of no crash
C20_WitnessNoCrash ==
  /\ proc = "exited"
  /\ ~TriageEntered
  /\ tainted_mems # {}
  /\ exit_record = [success |-> FALSE, message |-> "replay did not cause a crash"]


\* C21: in replay mode with no-mutate set, a targeted post-hook still adds
\* the bytes of its buffer to TM and sends no replay request: nothing
\* overwrites what the read put in the buffer.
C21_NoMutateTaintsOnly ==
  (RuleOp.kind = "hook" /\ replay /\ no_mutate) =>
    /\ tainted_mems = RuleBase.mems \cup (BufAddr .. BufAddr + RuleOp.n - 1)
    /\ replay_requests = << >>

\* a targeted ReadFile of MaxRead bytes in a replay without mutation: the
\* buffer is tainted, the mutation counted and not requested
C21_Witness ==
  /\ RuleOp = HookOp("ReadFile", MaxRead, TRUE)
  /\ replay /\ no_mutate
  /\ RuleBase = NoShadow
  /\ tainted_mems = BufAddr .. BufAddr + MaxRead - 1
  /\ mutate_count = 1
  /\ replay_requests = << >>


\* The destinations of the applied instruction: its registers in full width
\* and the bytes of its memory operands.
RuleDsts ==
  {instr_get_dst(RuleOp.instr, i) : i \in 0 .. instr_num_dsts(RuleOp.instr) - 1}
RuleDstRegs ==
  {reg_to_full_width64(opnd_get_reg(d)) : d \in {e \in RuleDsts : opnd_is_reg(e)}}
RuleDstBytes ==
  UNION {opnd_compute_address(d) .. opnd_compute_address(d) + opnd_size_in_bytes(d) - 1 :
           d \in {e \in RuleDsts : opnd_is_memory_reference(e)}}

\* C22: for an instruction no specialised handler takes, propagate leaves
\* every destination tainted if a source is tainted, and otherwise every
\* destination register out of TR and every destination byte out of TM;
\* what is not a destination stays as it was.
C22_GenericRule ==
  (RuleOp.kind = "instr" /\ ~handle_specific(RulePre, RuleOp.instr).result) =>
    IF any_src_tainted(RulePre, RuleOp.instr)
    THEN /\ tainted_regs = RuleBase.regs \cup RuleDstRegs
         /\ tainted_mems = RuleBase.mems \cup RuleDstBytes
    ELSE /\ tainted_regs = RuleBase.regs \ RuleDstRegs
         /\ tainted_mems = RuleBase.mems \ RuleDstBytes

\* push of an immediate with RSP tainted: RSP stays, the slot joins TM
C22_Witness ==
  /\ RuleOp = InstrOp(push_imm)
  /\ RuleBase = [regs |-> {DR_REG_RSP}, mems |-> {}]
  /\ tainted_regs = {DR_REG_RSP}
  /\ tainted_mems = SlotBytes

\* xchg with both sides tainted falls to the generic rule and keeps both
C22_WitnessXchg ==
  /\ RuleOp = InstrOp(xchg_rr(DR_REG_RAX, DR_REG_RBX))
  /\ RuleBase.regs = {DR_REG_RAX, DR_REG_RBX}
  /\ tainted_regs = {DR_REG_RAX, DR_REG_RBX}

\* Steps 4 and 5 of propagate_taint: the specialised handlers, then the
\* generic rule.
full_dispatch(G, instr) ==
  LET hs == handle_specific(G, instr)
  IN IF hs.result THEN hs.G ELSE propagate_generic(hs.G, instr)

\* C23: with TR and TM empty propagate returns with both empty, and the
\* full dispatch on the same empty state would leave both empty as well,
\* whatever the instruction.
C23_FastPathSound ==
  (RuleOp.kind = "instr" /\ RuleBase = NoShadow) =>
    /\ tainted_regs = {} /\ tainted_mems = {}
    /\ ShadowOf(full_dispatch(RulePre, RuleOp.instr)) = NoShadow

\* a return applied to the empty shadow state
C23_Witness ==
  /\ RuleOp = InstrOp(ret)
  /\ RuleBase = NoShadow
  /\ tainted_regs = {} /\ tainted_mems = {}


\* C26: is_tainted of a base+index+displacement operand is decided by the
\* bytes it addresses and by its base and index registers alone: with the
\* displacement constant replaced by another, the address, size, base and
\* index kept, the answer for the same TR and TM is the same.
C26_DisplacementIgnored ==
  (/\ RuleOp.kind = "instr"
   /\ instr_get_opcode(RuleOp.instr) = "OP_mov_ld"
   /\ opnd_is_base_disp(instr_get_src(RuleOp.instr, 0))) =>
    \A d \in RuleDisps :
      is_tainted(RulePre, instr_get_src(RuleOp.instr, 0))
        = is_tainted(RulePre, [instr_get_src(RuleOp.instr, 0) EXCEPT !.disp = d])


\* The entry point whose post-hook the step has run.
HookedFunction == IF hook_log'.hook = "Generic" THEN "ReadFile" ELSE "MapViewOfFile"

\* C28 as stated: the call counter moves only in a post-hook that found its
\* call targeted.
C28_CountsTargetedOnly ==
  [][(TotalCalls' # TotalCalls) => hook_log'.targeted]_vars

\* C28: a post-hook that passes the sanity check adds one to the counter of
\* its entry point, targeted or not, and leaves the other counter alone.
C28_CountsEverySaneCall ==
  [][((hook_log' # hook_log \/ TotalCalls' # TotalCalls) /\ hook_log'.sane) =>
        call_count' = [call_count EXCEPT ![HookedFunction] = @ + 1]]_vars

\* an untargeted ReadFile intercepted and counted, nothing tainted
C28_Witness ==
  /\ hook_log = HookEvent("Generic", TRUE, FALSE, TRUE)
  /\ call_count["ReadFile"] = 1
  /\ call_count["MapViewOfFile"] = 0
  /\ tainted_mems = {}


\* Is nothing tainted?
NoTaint == tainted_regs = {} /\ tainted_mems = {}

\* C30: the shadow state leaves emptiness only in a post-hook that found its
\* call targeted and marked at least one byte of its buffer; no clean call
\* takes it from empty to non-empty.
C30_TaintOnlyFromHooks ==
  [][(NoTaint /\ ~NoTaint') =>
        /\ TotalCalls' = TotalCalls + 1
        /\ hook_log'.sane /\ hook_log'.targeted
        /\ tainted_regs' = {}
        /\ tainted_mems' \subseteq BufAddr .. BufAddr + MaxRead - 1]_vars

\* a register tainted by a load from the buffer a targeted read filled
C30_Witness ==
  /\ hook_log.targeted
  /\ DR_REG_RAX \in tainted_regs
  /\ R_PC \in tainted_regs
  /\ TotalCalls = 1


(***************************************************************************)
(* SpecTrace: one guest thread running inside and around the traced        *)
(* module until it faults.  trace keeps the last pc propagate_taint was    *)
(* given and, oldest first, the last LAST_COUNT values each ring took in.  *)
(***************************************************************************)
\* call [SlotAddr]: a second call through a pointer in memory
call_slot == Instr("OP_call_ind", <<OpAbs(SlotAddr, 1), RSP>>, <<RSP, PushSlot>>)

\* The guest's code: two calls inside the traced module, nothing else.
CodeAt(pc) ==
  IF pc = ModStart + 1 THEN call_var
  ELSE IF pc = ModStart + 2 THEN call_slot
  ELSE nop

InitTrace ==
  /\ InitState
  /\ replay = FALSE
  /\ no_mutate = FALSE
  /\ triage_in = NoTriage

\* s with v at its end, cut to its last LAST_COUNT values
KeepLast(s, v) ==
  LET a == Append(s, v)
  IN IF Len(a) <= LAST_COUNT THEN a ELSE SubSeq(a, 2, Len(a))

\* The clean call before the instruction at pc, whole; trace takes in what
\* the call wrote to a ring, a ring being written when its index moves.
TracePropagate(pc) ==
  LET G1 == propagate_taint(Globals, pc, CodeAt(pc)) IN
  /\ proc = "running"
  /\ SetGlobals(G1)
  /\ trace' =
       [pc |-> pc,
        insns |-> IF G1.last_insn_idx # last_insn_idx
                  THEN KeepLast(trace.insns, G1.last_insns[last_insn_idx])
                  ELSE trace.insns,
        calls |-> IF G1.last_call_idx # last_call_idx
                  THEN KeepLast(trace.calls, G1.last_calls[last_call_idx])
                  ELSE trace.calls]
  /\ UNCHANGED <<last_branch, triage_in, hook_log, triage_io, mutatex, threads, window>>

NextTrace ==
  \/ \E mod \in Modules : ModuleLoad(mod)
  \/ \E pc \in PcRange : TracePropagate(pc)
  \/ PostGeneric(TRUE, 1, TRUE, "user_data") /\ UNCHANGED hook_log
  \/ OnException(Exception(EXCEPTION_ACCESS_VIOLATION, FALSE, nop, 1), IoAllOk)

SpecTrace == InitTrace /\ [][NextTrace]_vars


\* C24: propagate_taint appends its pc to the PC ring exactly when
\* module_start <= pc < module_end, pc = module_start included, with or
\* without taint, and leaves the ring alone otherwise.
C24_RingAdmitsModuleRange ==
  [][(trace' # trace \/ last_insn_idx' # last_insn_idx) =>
        IF module_start <= trace'.pc /\ trace'.pc < module_end
        THEN /\ last_insns' = [last_insns EXCEPT ![last_insn_idx] = trace'.pc]
             /\ last_insn_idx' = (last_insn_idx + 1) % LAST_COUNT
        ELSE /\ last_insns' = last_insns
             /\ last_insn_idx' = last_insn_idx]_vars


\* The values a ring took in, oldest first, behind the null values of the
\* slots never written.
OldestFirst(s) ==
  [i \in 1 .. LAST_COUNT |->
     IF i <= LAST_COUNT - Len(s) THEN 0 ELSE s[i - (LAST_COUNT - Len(s))]]

\* C25: with one guest thread, the report lists each ring oldest first: the
\* last LAST_COUNT values the ring took in, in the order it took them, or,
\* when it took in fewer, null values followed by all of them in order.
C25_ReportListsOldestFirst ==
  (crashed /\ Len(crash_json) = 1) =>
    /\ crash_json[1].last_insns = OldestFirst(trace.insns)
    /\ crash_json[1].last_calls = OldestFirst(trace.calls)

\* a report after the PC ring has wrapped and the call ring has taken in two
\* values
C25_Witness ==
  /\ crashed
  /\ Len(crash_json) = 1
  /\ last_insn_idx = 2
  /\ crash_json[1].last_insns
       = <<ModStart + 1, ModStart + 2, ModStart + 2, ModStart + 1, ModStart + 2>>
  /\ crash_json[1].last_calls = <<0, 0, 0, VarAddr, SlotAddr>>


(***************************************************************************)
(* SpecRace: the guest's threads inside propagate_taint's ring update at   *)
(* once, each statement of the update a step of its own.  Nothing is       *)
(* tainted, so every call returns at the fast path after the update.       *)
(***************************************************************************)
\* The address the racing threads execute, inside the traced module.
RacePc == ModStart + 1

\* if (pc > module_start && pc < module_end)
RingTest(t) ==
  /\ proc = "running"
  /\ threads[t].at = "idle"
  /\ threads' = [threads EXCEPT ![t] =
                   IF RacePc > module_start /\ RacePc < module_end
                   THEN ThreadAt("ring_store", nop, FALSE) ELSE Idle]
  /\ SetGlobals(Globals)
  /\ UNCHANGED <<last_branch, triage_in, hook_log, triage_io, mutatex, window, trace>>

\* last_insns[last_insn_idx] = pc; a write past the array's end is undefined
RingStore(t) ==
  /\ proc = "running"
  /\ threads[t].at = "ring_store"
  /\ SetGlobals(IF last_insn_idx \in 0 .. LAST_COUNT - 1
                THEN [Globals EXCEPT !.last_insns[last_insn_idx] = RacePc]
                ELSE [Globals EXCEPT !.proc = "undefined"])
  /\ threads' = [threads EXCEPT ![t].at = "ring_incr"]
  /\ UNCHANGED <<last_branch, triage_in, hook_log, triage_io, mutatex, window, trace>>

\* last_insn_idx++
RingIncr(t) ==
  /\ proc = "running"
  /\ threads[t].at = "ring_incr"
  /\ SetGlobals([Globals EXCEPT !.last_insn_idx = @ + 1])
  /\ threads' = [threads EXCEPT ![t].at = "ring_wrap"]
  /\ UNCHANGED <<last_branch, triage_in, hook_log, triage_io, mutatex, window, trace>>

\* last_insn_idx %= LAST_COUNT, and the return at the fast path
RingWrap(t) ==
  /\ proc = "running"
  /\ threads[t].at = "ring_wrap"
  /\ SetGlobals([Globals EXCEPT !.last_insn_idx = @ % LAST_COUNT])
  /\ threads' = [threads EXCEPT ![t] = Idle]
  /\ UNCHANGED <<last_branch, triage_in, hook_log, triage_io, mutatex, window, trace>>

NextRace ==
  \/ \E mod \in Modules : ModuleLoad(mod)
  \/ \E t \in Threads : RingTest(t)
  \/ \E t \in Threads : RingStore(t)
  \/ \E t \in Threads : RingIncr(t)
  \/ \E t \in Threads : RingWrap(t)

SpecRace == InitTrace /\ [][NextRace]_vars

\* C29: whatever the interleaving of the threads in propagate_taint, a
\* thread about to write a ring slot finds the write index in 0 .. 4.
C29_RingIndexInRange ==
  \A t \in Threads :
    threads[t].at = "ring_store" => last_insn_idx \in 0 .. LAST_COUNT - 1


(***************************************************************************)
(* SpecFault: the guest's threads faulting at once.  on_exception fills    *)
(* the global trace_exception_ctx field by field, each a step of its own,  *)
(* then goes down the ladder to dump_crash.  Thread t's fault is fault t.  *)
(***************************************************************************)
\* crashed = true; trace_exception_ctx.thread_id = GetCurrentThreadId()
FaultThreadId(t) ==
  /\ proc = "running"
  /\ threads[t].at = "idle"
  /\ SetGlobals([Globals EXCEPT !.crashed = TRUE,
                                !.trace_exception_ctx.thread_id = t])
  /\ threads' = [threads EXCEPT ![t] = ThreadAt("fault_ctx", nop, FALSE)]
  /\ UNCHANGED <<last_branch, triage_in, hook_log, triage_io, mutatex, window, trace>>

\* dr_mcontext_to_context(&(trace_exception_ctx.thread_ctx), excpt->mcontext)
FaultContext(t) ==
  /\ proc = "running"
  /\ threads[t].at = "fault_ctx"
  /\ SetGlobals([Globals EXCEPT !.trace_exception_ctx.thread_ctx = t])
  /\ threads' = [threads EXCEPT ![t].at = "fault_record"]
  /\ UNCHANGED <<last_branch, triage_in, hook_log, triage_io, mutatex, window, trace>>

\* memcpy(&(trace_exception_ctx.record), excpt->record, ...)
FaultRecord(t) ==
  /\ proc = "running"
  /\ threads[t].at = "fault_record"
  /\ SetGlobals([Globals EXCEPT !.trace_exception_ctx.record = t])
  /\ threads' = [threads EXCEPT ![t].at = "fault_dump"]
  /\ UNCHANGED <<last_branch, triage_in, hook_log, triage_io, mutatex, window, trace>>

\* The ladder and dump_crash, every file operation succeeding.
FaultDump(t) ==
  LET excpt == Exception(EXCEPTION_ACCESS_VIOLATION, FALSE, nop, t) IN
  /\ proc = "running"
  /\ threads[t].at = "fault_dump"
  /\ SetGlobals(dump_crash(Globals, excpt,
                           score_ladder(triage_inputs(Globals, excpt)), IoAllOk))
  /\ triage_in' = triage_inputs(Globals, excpt)
  /\ triage_io' = IoAllOk
  /\ threads' = [threads EXCEPT ![t] = Idle]
  /\ UNCHANGED <<last_branch, hook_log, mutatex, window, trace>>

NextFault ==
  \/ \E t \in Threads : FaultThreadId(t)
  \/ \E t \in Threads : FaultContext(t)
  \/ \E t \in Threads : FaultRecord(t)
  \/ \E t \in Threads : FaultDump(t)

SpecFault == Init /\ [][NextFault]_vars

\* C27: the thread id, the machine context and the exception record a
\* minidump is given are those of one and the same fault, also when two
\* threads are in the triage handler at once.
C27_SnapshotOfOneFault ==
  \A i \in 1 .. Len(minidump_info) :
    /\ minidump_info[i].thread_id = minidump_info[i].thread_ctx
    /\ minidump_info[i].thread_ctx = minidump_info[i].record


\* Was the callback applied to the drawn shadow state the clean call of a
\* branch-family instruction?
RuleOnBranch == RuleOp.kind = "instr" /\ is_branch_family(RuleOp.instr)

\* C31: the PC sentinel is in TR after a callback exactly if it was in TR
\* before it, unless the callback is propagate on a branch-family
\* instruction: the generic rule, push / pop, xor, xchg and the post-hooks
\* of the input functions neither insert it nor remove it.
C31_PcTaintOnlyByBranches ==
  (RuleOp # NoOp /\ ~RuleOnBranch) =>
    ((R_PC \in tainted_regs) = (R_PC \in RuleBase.regs))

\* mov eax, imm applied with the sentinel and RAX tainted: RAX leaves TR,
\* the sentinel stays
C31_Witness ==
  /\ RuleOp = InstrOp(mov_eax_imm)
  /\ RuleBase = [regs |-> {R_PC, DR_REG_RAX}, mems |-> {}]
  /\ tainted_regs = {R_PC}

\* a targeted read applied with the sentinel out of TR: the buffer joins TM,
\* the sentinel stays out
C31_WitnessHook ==
  /\ RuleOp = HookOp("ReadFile", MaxRead, TRUE)
  /\ R_PC \notin RuleBase.regs
  /\ BufAddr \in tainted_mems
  /\ R_PC \notin tainted_regs


\* The reasons of the rows that look at the operands of the faulting
\* instruction, and the catch-all.
OperandReasons == {"tainted write", "write", "tainted read", "read", "unknown"}

\* C32: a crash report carries tainted_src or tainted_dst true only under
\* one of the reasons 'tainted write', 'write', 'tainted read', 'read' and
\* 'unknown'; under every other reason both flags are false, whatever the
\* taint of the faulting instruction's operands.
C32_OperandFlagsOnlyOnDataRows ==
  \A i \in 1 .. Len(crash_json) :
    (crash_json[i].tainted_src \/ crash_json[i].tainted_dst) =>
      crash_json[i].reason \in OperandReasons

\* a fault at `call rax` with RAX tainted: the report says branching and
\* carries both flags false
C32_Witness ==
  /\ crashed
  /\ Len(crash_json) = 1
  /\ triage_in.src_taint
  /\ DR_REG_RAX \in tainted_regs
  /\ crash_json[1].reason = "branching"
  /\ ~crash_json[1].tainted_src /\ ~crash_json[1].tainted_dst

\* a fault at a store of tainted RAX: the report says tainted write and
\* carries tainted_src true
C32_WitnessWrite ==
  /\ crashed
  /\ Len(crash_json) = 1
  /\ crash_json[1].reason = "tainted write"
  /\ crash_json[1].tainted_src


\* The score the ladder gives what the handler read with the PC's taint
\* the other way round and everything else the same.
ScoreOtherPcTaint ==
  score_ladder([triage_in EXCEPT !.pc_tainted = ~@]).score

\* C33: the score of a report is one of 25, 50, 75 and 100, and of two
\* triage inputs that differ only in pc_tainted the one with pc_tainted
\* true never scores lower than the one with pc_tainted false.
C33_ScoreMonotoneInPcTaint ==
  crashed =>
    /\ Len(crash_json) = 1
    /\ crash_json[1].score \in {25, 50, 75, 100}
    /\ IF triage_in.pc_tainted
       THEN crash_json[1].score >= ScoreOtherPcTaint
       ELSE ScoreOtherPcTaint >= crash_json[1].score

\* a fault at a branch with the PC tainted scores 75, and 25 with the PC
\* not tainted
C33_Witness ==
  /\ crashed
  /\ Len(crash_json) = 1
  /\ triage_in.pc_tainted
  /\ crash_json[1].reason = "branching tainted pc"
  /\ crash_json[1].score = 75
  /\ ScoreOtherPcTaint = 25

\* a fault at a plain read scores the same with and without the PC tainted
C33_WitnessEqual ==
  /\ crashed
  /\ Len(crash_json) = 1
  /\ ~triage_in.pc_tainted
  /\ crash_json[1].reason = "read"
  /\ ScoreOtherPcTaint = crash_json[1].score

=============================================================================
